---- MODULE Spec2Model ----
(***************************************************************************)
(* A model of the roomease-mvp retrieval-and-ranking pipeline              *)
(* (src/rag_backend1.py): clean_json, filter_students,                     *)
(* recommend_apartments and recommend_roommates.                           *)
(*                                                                         *)
(* Python strings are TLA+ strings (sequences of characters); Python       *)
(* values that may be None, numbers, lists or dicts are tagged records.    *)
(***************************************************************************)
EXTENDS Integers, Sequences, FiniteSets, TLC

(***************************************************************************)
(* Python values                                                           *)
(***************************************************************************)
PyNone == [t |-> "None"]
PyStr(s) == [t |-> "str", s |-> s]
PyInt(n) == [t |-> "int", n |-> n]
PyBool(b) == [t |-> "bool", b |-> b]
PyList(xs) == [t |-> "list", xs |-> xs]
PyDict(d) == [t |-> "dict", d |-> d]

\* Python truthiness of a value (what `x or y` and `if x` test).
Truthy(v) ==
    CASE v.t = "None" -> FALSE
      [] v.t = "str" -> v.s # ""
      [] v.t = "int" -> v.n # 0
      [] v.t = "bool" -> v.b
      [] v.t = "list" -> Len(v.xs) > 0
      [] v.t = "dict" -> DOMAIN v.d # {}

\* x or y
PyOr(x, y) == IF Truthy(x) THEN x ELSE y

\* dict.get(key): the value, or None when the key is absent.
DictGet(v, key) == IF key \in DOMAIN v.d THEN v.d[key] ELSE PyNone

\* dict.get(key, default)
DictGetDefault(v, key, default) == IF key \in DOMAIN v.d THEN v.d[key] ELSE default

(***************************************************************************)
(* Python string operations                                                *)
(***************************************************************************)
Char(s, i) == IF i >= 1 /\ i <= Len(s) THEN SubSeq(s, i, i) ELSE ""

\* The characters str.strip() removes and the regex class \s matches.
IsWs(c) == c \in {" ", "\n", "\t", "\r"}

SetMin(S) == CHOOSE x \in S : \A y \in S : x <= y

StartsAt(s, p, i) == i >= 1 /\ i + Len(p) - 1 <= Len(s) /\ SubSeq(s, i, i + Len(p) - 1) = p

\* str.find(p): the 0-based index of the first occurrence, or -1.
Find(s, p) ==
    LET found == {i \in 1..(Len(s) - Len(p) + 1) : SubSeq(s, i, i + Len(p) - 1) = p}
    IN IF found = {} THEN -1 ELSE SetMin(found) - 1

\* `p in s`
Contains(s, p) == p = "" \/ Find(s, p) >= 0

\* str.startswith(p)
StartsWith(s, p) == StartsAt(s, p, 1)

RECURSIVE LStrip(_)
LStrip(s) == IF s # "" /\ IsWs(Char(s, 1)) THEN LStrip(SubSeq(s, 2, Len(s))) ELSE s

RECURSIVE RStrip(_)
RStrip(s) == IF s # "" /\ IsWs(Char(s, Len(s))) THEN RStrip(SubSeq(s, 1, Len(s) - 1)) ELSE s

\* str.strip()
Strip(s) == RStrip(LStrip(s))

\* str.replace(old, new): every non-overlapping occurrence, left to right.
RECURSIVE Replace(_, _, _)
Replace(s, old, new) ==
    LET i == Find(s, old)
    IN IF i < 0 THEN s
       ELSE SubSeq(s, 1, i) \o new \o Replace(SubSeq(s, i + Len(old) + 1, Len(s)), old, new)

\* The first index >= i that holds no whitespace (Len(s) + 1 when none).
RECURSIVE SkipWs(_, _)
SkipWs(s, i) == IF i <= Len(s) /\ IsWs(Char(s, i)) THEN SkipWs(s, i + 1) ELSE i

\* re.sub(r",\s*<close>", "<close>", s): a comma, any whitespace, then the
\* closing bracket is replaced by the closing bracket alone.
RECURSIVE SubTrailingComma(_, _)
SubTrailingComma(s, close) ==
    LET found == {i \in 1..Len(s) : Char(s, i) = "," /\ Char(s, SkipWs(s, i + 1)) = close}
    IN IF found = {} THEN s
       ELSE LET i == SetMin(found)
                j == SkipWs(s, i + 1)
            IN SubSeq(s, 1, i - 1) \o close \o SubTrailingComma(SubSeq(s, j + 1, Len(s)), close)

\* str[:n]
Truncate(s, n) == IF Len(s) <= n THEN s ELSE SubSeq(s, 1, n)

\* str[n:]
DropFirst(s, n) == IF Len(s) <= n THEN "" ELSE SubSeq(s, n + 1, Len(s))

(***************************************************************************)
(* clean_json (src/rag_backend1.py:19-33)                                  *)
(***************************************************************************)
\* The markdown code fence, three backquotes in the source.  A TLA+ string
\* literal cannot hold a backquote, so a tilde stands for it throughout.
FENCE == "~~~"

clean_json(text) ==
    LET t1 == Replace(Strip(text), "\n", " ")
        t2 == SubTrailingComma(t1, "}")
        t3 == SubTrailingComma(t2, "]")
        t4 == Replace(Replace(t3, FENCE \o "json", ""), FENCE, "")
        first_brace == Find(t4, "{")
    IN IF first_brace > 0 THEN DropFirst(t4, first_brace) ELSE t4

(***************************************************************************)
(* json.loads (called at src/rag_backend1.py:387 and :519): a recursive    *)
(* descent over the text.  Covered: objects, arrays, strings without       *)
(* escapes, integers, true, false, null, whitespace between tokens.  The   *)
(* result is [ok, val, pos]: ok is FALSE where json.loads raises           *)
(* JSONDecodeError, pos is the index after the value.                      *)
(***************************************************************************)
JFail == [ok |-> FALSE, val |-> PyNone, pos |-> 0]
JOk(v, p) == [ok |-> TRUE, val |-> v, pos |-> p]

IsDigit(c) == c \in {"0", "1", "2", "3", "4", "5", "6", "7", "8", "9"}

DigitVal(c) ==
    CASE c = "0" -> 0 [] c = "1" -> 1 [] c = "2" -> 2 [] c = "3" -> 3 [] c = "4" -> 4
      [] c = "5" -> 5 [] c = "6" -> 6 [] c = "7" -> 7 [] c = "8" -> 8 [] c = "9" -> 9

\* The first index >= i that holds no digit.
RECURSIVE SkipDigits(_, _)
SkipDigits(s, i) == IF IsDigit(Char(s, i)) THEN SkipDigits(s, i + 1) ELSE i

\* The value of the digits s[i..j-1], most significant first.
RECURSIVE DigitsVal(_, _, _, _)
DigitsVal(s, i, j, acc) ==
    IF i >= j THEN acc ELSE DigitsVal(s, i + 1, j, acc * 10 + DigitVal(Char(s, i)))

\* An integer literal at i: an optional minus, then digits with no leading zero.
JNumber(s, i) ==
    LET neg == Char(s, i) = "-"
        d == IF neg THEN i + 1 ELSE i
        e == SkipDigits(s, d)
    IN IF e = d \/ (Char(s, d) = "0" /\ e > d + 1) \/ Char(s, e) \in {".", "e", "E"}
       THEN JFail
       ELSE JOk(PyInt(IF neg THEN 0 - DigitsVal(s, d, e, 0) ELSE DigitsVal(s, d, e, 0)), e)

\* The index of the quote that closes a string literal scanned from j, or 0
\* when the text ends first or an escape (not covered) is met.
RECURSIVE ScanString(_, _)
ScanString(s, j) ==
    IF j > Len(s) \/ Char(s, j) = "\\" THEN 0
    ELSE IF Char(s, j) = "\"" THEN j
    ELSE ScanString(s, j + 1)

\* A string literal whose opening quote is at i.
JString(s, i) ==
    LET q == ScanString(s, i + 1)
    IN IF q = 0 THEN JFail ELSE JOk(PyStr(SubSeq(s, i + 1, q - 1)), q + 1)

RECURSIVE JValue(_, _)
RECURSIVE JMembers(_, _, _, _)
RECURSIVE JElements(_, _, _, _)

\* The members of an object after its "{" (first: none read yet).  A key
\* given twice keeps its last value, as a Python dict does.
JMembers(s, i, d, first) ==
    LET j == SkipWs(s, i)
    IN IF first /\ Char(s, j) = "}" THEN JOk(PyDict(d), j + 1)
       ELSE IF Char(s, j) # "\"" THEN JFail
       ELSE LET key == JString(s, j)
                k == SkipWs(s, key.pos)
            IN IF ~key.ok \/ Char(s, k) # ":" THEN JFail
               ELSE LET v == JValue(s, k + 1)
                        m == SkipWs(s, v.pos)
                        d2 == (key.val.s :> v.val) @@ d
                    IN IF ~v.ok THEN JFail
                       ELSE IF Char(s, m) = "," THEN JMembers(s, m + 1, d2, FALSE)
                       ELSE IF Char(s, m) = "}" THEN JOk(PyDict(d2), m + 1)
                       ELSE JFail

\* The elements of an array after its "[".
JElements(s, i, xs, first) ==
    LET j == SkipWs(s, i)
    IN IF first /\ Char(s, j) = "]" THEN JOk(PyList(xs), j + 1)
       ELSE LET v == JValue(s, j)
                m == SkipWs(s, v.pos)
            IN IF ~v.ok THEN JFail
               ELSE IF Char(s, m) = "," THEN JElements(s, m + 1, Append(xs, v.val), FALSE)
               ELSE IF Char(s, m) = "]" THEN JOk(PyList(Append(xs, v.val)), m + 1)
               ELSE JFail

JValue(s, i0) ==
    LET i == SkipWs(s, i0)
        c == Char(s, i)
    IN CASE c = "{" -> JMembers(s, i + 1, <<>>, TRUE)
         [] c = "[" -> JElements(s, i + 1, <<>>, TRUE)
         [] c = "\"" -> JString(s, i)
         [] c = "-" \/ IsDigit(c) -> JNumber(s, i)
         [] StartsAt(s, "null", i) -> JOk(PyNone, i + 4)
         [] StartsAt(s, "true", i) -> JOk(PyBool(TRUE), i + 4)
         [] StartsAt(s, "false", i) -> JOk(PyBool(FALSE), i + 5)
         [] OTHER -> JFail

\* json.loads(s): one value, then nothing but whitespace.
json_loads(s) ==
    LET r == JValue(s, 1)
    IN IF r.ok /\ SkipWs(s, r.pos) > Len(s) THEN r ELSE JFail


(***************************************************************************)
(* filter_students (src/rag_backend1.py:131-189)                           *)
(***************************************************************************)
LowerChar(c) ==
    CASE c = "A" -> "a" [] c = "B" -> "b" [] c = "C" -> "c" [] c = "D" -> "d"
      [] c = "E" -> "e" [] c = "F" -> "f" [] c = "G" -> "g" [] c = "H" -> "h"
      [] c = "I" -> "i" [] c = "J" -> "j" [] c = "K" -> "k" [] c = "L" -> "l"
      [] c = "M" -> "m" [] c = "N" -> "n" [] c = "O" -> "o" [] c = "P" -> "p"
      [] c = "Q" -> "q" [] c = "R" -> "r" [] c = "S" -> "s" [] c = "T" -> "t"
      [] c = "U" -> "u" [] c = "V" -> "v" [] c = "W" -> "w" [] c = "X" -> "x"
      [] c = "Y" -> "y" [] c = "Z" -> "z" [] OTHER -> c

\* str.lower()
RECURSIVE Lower(_)
Lower(s) == IF s = "" THEN "" ELSE LowerChar(Char(s, 1)) \o Lower(SubSeq(s, 2, Len(s)))

\* The characters the regex class \w matches (in lower-cased text).
IsWordChar(c) ==
    c \in {"a", "b", "c", "d", "e", "f", "g", "h", "i", "j", "k", "l", "m", "n", "o", "p",
           "q", "r", "s", "t", "u", "v", "w", "x", "y", "z", "_",
           "0", "1", "2", "3", "4", "5", "6", "7", "8", "9"}

\* re.search(r"\b<phrase>\b", s) for a phrase that starts and ends with a
\* word character: an occurrence with no word character on either side.
SearchWord(phrase, s) ==
    \E i \in 1..Len(s) :
        /\ StartsAt(s, phrase, i)
        /\ ~IsWordChar(Char(s, i - 1))
        /\ ~IsWordChar(Char(s, i + Len(phrase)))

\* structured_patterns: each regex is \b<phrase>\b; "stick(s)? to routine"
\* is the two phrases it stands for.
structured_patterns ==
    {"highly conscientious", "high conscientiousness", "very conscientious",
     "high in conscientiousness", "strict routine", "very strict",
     "highly structured", "very structured", "structured routine", "regimented",
     "stick to routine", "sticks to routine"}

\* (meta.get(field) or "").lower()
MetaLower(meta, field) ==
    LET v == DictGet(meta, field)
    IN IF Truthy(v) THEN Lower(v.s) ELSE ""

\* A pet rule that looks for "no dogs" alone.
DogFilterNoDogsOnly(dog) == Contains(dog, "no dogs")

\* The three exclusion rules, on the lower-cased fields.
DogFilter(dog) ==
    Contains(dog, "allergic") \/ Contains(dog, "pet allergic") \/ Contains(dog, "no dogs")

StructureFilter(lifestyle) == \E p \in structured_patterns : SearchWord(p, lifestyle)

\* A noise rule that does not read the sleep field.
NoiseFilterIgnoresSleep(lifestyle, noise, sleep) ==
    Contains(lifestyle, "noise sensitive") \/ Contains(noise, "noise sensitive")

NoiseFilter(lifestyle, noise, sleep) ==
    /\ Contains(lifestyle, "noise sensitive") \/ Contains(noise, "noise sensitive")
    /\ Contains(sleep, "10") \/ Contains(sleep, "10:")

\* An exclusion test without the lifestyle rule.
ExcludedWithoutStructure(meta) ==
    LET dog == MetaLower(meta, "dog_friendliness")
        lifestyle == MetaLower(meta, "lifestyle_summary")
        sleep == MetaLower(meta, "sleep_schedule")
        noise == MetaLower(meta, "noise_tolerance")
    IN DogFilter(dog) \/ NoiseFilter(lifestyle, noise, sleep)

\* Whether the loop body reaches continue for this candidate.
Excluded(meta) ==
    LET dog == MetaLower(meta, "dog_friendliness")
        lifestyle == MetaLower(meta, "lifestyle_summary")
        sleep == MetaLower(meta, "sleep_schedule")
        noise == MetaLower(meta, "noise_tolerance")
    IN DogFilter(dog) \/ StructureFilter(lifestyle) \/ NoiseFilter(lifestyle, noise, sleep)

DigitStr(n) ==
    CASE n = 0 -> "0" [] n = 1 -> "1" [] n = 2 -> "2" [] n = 3 -> "3" [] n = 4 -> "4"
      [] n = 5 -> "5" [] n = 6 -> "6" [] n = 7 -> "7" [] n = 8 -> "8" [] n = 9 -> "9"

\* str(n) of an integer
RECURSIVE IntStr(_)
IntStr(n) ==
    IF n < 0 THEN "-" \o IntStr(0 - n)
    ELSE IF n < 10 THEN DigitStr(n)
    ELSE IntStr(n \div 10) \o DigitStr(n % 10)

\* str(x), as an f-string or str() renders a value.
FmtValue(v) ==
    CASE v.t = "None" -> "None"
      [] v.t = "str" -> v.s
      [] v.t = "int" -> IntStr(v.n)
      [] v.t = "bool" -> (IF v.b THEN "True" ELSE "False")
      [] OTHER -> "<object>"

\* A display name that is the name metadata as stored.
DisplayNameAsStored(meta) == FmtValue(DictGet(meta, "name"))

\* The display name: the name metadata, or Candidate_<chunk_index>.
DisplayName(meta) ==
    LET raw_name == DictGet(meta, "name")
    IN IF raw_name \in {PyNone, PyStr(""), PyStr("not specified")}
       THEN "Candidate_" \o FmtValue(DictGet(meta, "chunk_index"))
       ELSE raw_name.s

\* An appended dict that does not carry the candidate's metadata.
AcceptedWithoutMeta(doc, meta) ==
    [name |-> DisplayName(meta),
     personality |-> DictGet(meta, "personality"),
     lifestyle |-> MetaLower(meta, "lifestyle_summary"),
     sleep |-> MetaLower(meta, "sleep_schedule"),
     noise |-> MetaLower(meta, "noise_tolerance"),
     dog |-> MetaLower(meta, "dog_friendliness"),
     cleanliness |-> DictGet(meta, "cleanliness"),
     study |-> DictGet(meta, "study_habits"),
     raw |-> doc,
     meta |-> PyDict([type |-> PyStr("student")])]

\* The dict appended for an accepted candidate.
Accepted(doc, meta) ==
    [name |-> DisplayName(meta),
     personality |-> DictGet(meta, "personality"),
     lifestyle |-> MetaLower(meta, "lifestyle_summary"),
     sleep |-> MetaLower(meta, "sleep_schedule"),
     noise |-> MetaLower(meta, "noise_tolerance"),
     dog |-> MetaLower(meta, "dog_friendliness"),
     cleanliness |-> DictGet(meta, "cleanliness"),
     study |-> DictGet(meta, "study_habits"),
     raw |-> doc,
     meta |-> meta]

MinOf(a, b) == IF a <= b THEN a ELSE b

\* A filter that keeps every candidate.
filter_students_keeps_all(docs, metas) ==
    [i \in 1..MinOf(Len(docs), Len(metas)) |-> Accepted(docs[i], metas[i])]

\* filter_students(docs, metas): zip stops at the shorter list.
RECURSIVE FilterFrom(_, _, _)
FilterFrom(docs, metas, i) ==
    IF i > MinOf(Len(docs), Len(metas)) THEN <<>>
    ELSE IF Excluded(metas[i]) THEN FilterFrom(docs, metas, i + 1)
    ELSE <<Accepted(docs[i], metas[i])>> \o FilterFrom(docs, metas, i + 1)

filter_students(docs, metas) == FilterFrom(docs, metas, 1)


(***************************************************************************)
(* run_gemini (src/rag_backend1.py:54-99).  The hosted model's answer is   *)
(* an outcome [kind, text]: kind "exception" (generate_content or the      *)
(* response accessors raise), "no_candidates", or "response" with the      *)
(* text of its parts.                                                      *)
(***************************************************************************)
\* A wrapper that hands back the text of a failure without a label.
run_gemini_unlabelled(outcome, json_mode) ==
    CASE outcome.kind \in {"exception", "no_candidates"} -> outcome.text
      [] OTHER ->
           IF json_mode
           THEN (IF outcome.text # "" THEN outcome.text ELSE "ERROR: Empty JSON response.")
           ELSE (IF Strip(outcome.text) # "" THEN Strip(outcome.text) ELSE "(empty response)")

run_gemini(outcome, json_mode) ==
    CASE outcome.kind = "exception" -> "ERROR: Gemini API failed: " \o outcome.text
      [] outcome.kind = "no_candidates" -> "ERROR: Gemini returned no candidates."
      [] OTHER ->
           IF json_mode
           THEN (IF outcome.text # "" THEN outcome.text ELSE "ERROR: Empty JSON response.")
           ELSE (IF Strip(outcome.text) # "" THEN Strip(outcome.text) ELSE "(empty response)")

\* Whether the hosted model answered the call: generate_content returned a
\* response that holds a candidate.
GeminiAnswered(outcome) == outcome.kind = "response"

GeminiFailures ==
    {[kind |-> "exception", text |-> "503 unavailable"],
     [kind |-> "no_candidates", text |-> ""],
     [kind |-> "response", text |-> ""]}

Responses(texts) == {[kind |-> "response", text |-> t] : t \in texts}

(***************************************************************************)
(* summarize_description (src/apartment_description_summarizer.py:23-44).  *)
(* The local model's answer is an outcome [kind, text]: kind "exception"   *)
(* (the request, raise_for_status or the JSON access raises) or "response" *)
(* with the message content.                                               *)
(***************************************************************************)
summarize_description(outcome) ==
    LET c1 == Strip(outcome.text)
        c2 == Strip(Replace(Replace(c1, FENCE, ""), "json", ""))
    IN DropFirst(c2, 25)

(***************************************************************************)
(* list.sort(key=..., reverse=True) on a list of [key, item] pairs (the    *)
(* item with the key the lambda computed for it): a stable sort, so items  *)
(* with equal keys keep their order.  Each item is inserted after every    *)
(* item whose key is greater than or equal to its own.                     *)
(***************************************************************************)
\* An insertion that puts an item before the items of equal key.
RECURSIVE InsertDescUnstable(_, _)
InsertDescUnstable(sorted, x) ==
    IF sorted = <<>> THEN <<x>>
    ELSE IF Head(sorted).key > x.key THEN <<Head(sorted)>> \o InsertDescUnstable(Tail(sorted), x)
    ELSE <<x>> \o sorted

RECURSIVE InsertDesc(_, _)
InsertDesc(sorted, x) ==
    IF sorted = <<>> THEN <<x>>
    ELSE IF Head(sorted).key >= x.key THEN <<Head(sorted)>> \o InsertDesc(Tail(sorted), x)
    ELSE <<x>> \o sorted

RECURSIVE SortFrom(_, _, _)
SortFrom(xs, i, acc) ==
    IF i > Len(xs) THEN acc ELSE SortFrom(xs, i + 1, InsertDesc(acc, xs[i]))

SortDescending(xs) == SortFrom(xs, 1, <<>>)

\* list[:k] for k >= 0
Take(xs, k) == SubSeq(xs, 1, MinOf(k, Len(xs)))


(***************************************************************************)
(* Bounds of the model                                                     *)
(***************************************************************************)
\* The largest top_k a caller passes.
MaxTopK == 3
\* The most records a vector query returns in the model (the code asks for
\* n_results nearest, the store returns fewer when it holds fewer).
MaxHits == 2
\* The longest generated list of scored candidates in an LLM answer.
MaxScored == 3

(***************************************************************************)
(* Text the hosted model can answer with                                   *)
(***************************************************************************)
Q(str) == "\"" \o str \o "\""

\* sep.join(parts)
RECURSIVE Join(_, _)
Join(parts, sep) ==
    IF parts = <<>> THEN ""
    ELSE IF Len(parts) = 1 THEN parts[1]
    ELSE parts[1] \o sep \o Join(Tail(parts), sep)

Member(key, valueText) == Q(key) \o ": " \o valueText
JsonObject(members) == "{" \o Join(members, ", ") \o "}"
JsonArray(elems) == "[" \o Join(elems, ", ") \o "]"
OptMember(key, valueText) == IF valueText = "" THEN <<>> ELSE <<Member(key, valueText)>>

\* Answers to the query-parsing prompt (schema apartment_parse_schema,
\* src/rag_backend1.py:270-295).  "" stands for a key left out.
RoommatesTexts == {"", "null", "0", "1", "2", "true", "\"2\""}
BudgetTexts == {"", "null", "0", "1000", "\"1000\""}

BudgetPairText(r, b) ==
    JsonObject(<<Member("apartment_query", Q("flat in Salamanca"))>>
               \o OptMember("roommates", r) \o OptMember("budget", b))

FullParseText ==
    JsonObject(<<Member("apartment_query", Q("flat in Salamanca")),
                 Member("structured_filters",
                        JsonObject(<<Member("neighborhood", Q("Salamanca, Retiro")),
                                     Member("must_have_lift", "true")>>)),
                 Member("unstructured_preferences", JsonArray(<<Q("quiet")>>)),
                 Member("roommates", "2"), Member("budget", "1500")>>)

ParseTextsWellFormed ==
    {BudgetPairText(r, b) : r \in RoommatesTexts, b \in BudgetTexts}
    \cup {FullParseText,
          \* a fenced answer with a trailing comma, which clean_json repairs
          FENCE \o "json\n{\"apartment_query\": \"flat\", \"roommates\": 1,\n}\n" \o FENCE,
          \* prose before the object
          "Here is the JSON: " \o BudgetPairText("2", "1000"),
          \* no apartment_query
          "{}",
          JsonObject(<<Member("apartment_query", "null")>>)}

\* Valid JSON objects whose fields have the wrong type.
ParseTextsWrongFields ==
    {JsonObject(<<Member("apartment_query", Q("flat")), Member("structured_filters", Q("Salamanca"))>>),
     JsonObject(<<Member("apartment_query", Q("flat")),
                  Member("structured_filters", JsonObject(<<Member("neighborhood", "7")>>))>>),
     JsonObject(<<Member("apartment_query", Q("flat")),
                  Member("unstructured_preferences", JsonArray(<<"1", "2">>))>>)}

\* Valid JSON that is not an object.
ParseTextsNotObject == {"[1, 2]", "5", "\"flat in Salamanca\"", "null"}

\* Text json.loads rejects.
ParseTextsUnparseable == {"{\"apartment_query\": \"flat in Sal", "Sorry, I cannot help with that."}

ParseTexts ==
    ParseTextsWellFormed \cup ParseTextsWrongFields \cup ParseTextsNotObject
    \cup ParseTextsUnparseable

\* Answers to the scoring prompt (schema apartment_score_schema,
\* src/rag_backend1.py:298-315).
Codes == <<"A", "B", "C", "D", "E">>
ScoreValues == {"3", "7"}

ScoredItem(code, score) ==
    JsonObject(<<Member("property_code", Q(code)), Member("total_score", score),
                 Member("reasoning", Q("fits"))>>)

ScoreDoc(items) == JsonObject(<<Member("apartments", JsonArray(items))>>)

\* Every list of 1..MaxScored items with scores from ScoreValues.
GeneratedScoreTexts ==
    UNION {{ScoreDoc([i \in 1..n |-> ScoredItem(Codes[i], f[i])]) : f \in [1..n -> ScoreValues]}
           : n \in 1..MaxScored}

\* Five candidates A..E scored 9, 7, 5, 3, 1.
FiveScoredText ==
    ScoreDoc(<<ScoredItem("A", "9"), ScoredItem("B", "7"), ScoredItem("C", "5"),
               ScoredItem("D", "3"), ScoredItem("E", "1")>>)

ScoreTextsWellFormed ==
    GeneratedScoreTexts
    \cup {FiveScoredText,
          ScoreDoc(<<ScoredItem("E", "1"), ScoredItem("Z", "9"), ScoredItem("A", "9")>>),
          FENCE \o "json\n" \o ScoreDoc(<<ScoredItem("B", "3"), ScoredItem("A", "7")>>) \o "\n" \o FENCE,
          ScoreDoc(<<>>),
          "{}"}

\* Valid JSON of the wrong shape.
ScoreTextsWrongShape ==
    {"[1, 2]", "7", "null",
     JsonObject(<<Member("apartments", JsonObject(<<Member("A", "9")>>))>>),
     JsonObject(<<Member("apartments", Q("A"))>>),
     ScoreDoc(<<"1", "2">>),
     ScoreDoc(<<JsonObject(<<Member("total_score", "9"), Member("reasoning", Q("fits"))>>)>>),
     ScoreDoc(<<JsonObject(<<Member("property_code", Q("A")), Member("reasoning", Q("fits"))>>)>>),
     ScoreDoc(<<JsonObject(<<Member("property_code", Q("A")), Member("total_score", "9")>>)>>),
     ScoreDoc(<<ScoredItem("A", Q("high"))>>),
     ScoreDoc(<<ScoredItem("A", "null")>>),
     ScoreDoc(<<ScoredItem("A", Q("high")), ScoredItem("B", "7")>>)}

\* Text json.loads rejects, also after clean_json.
ScoreTextsUnparseable ==
    {"{\"apartments\": [{\"property_code\": \"A\", \"total_sc",
     "Scores:\n{\"apartments\": [",
     FENCE \o "json\n{\"apartments\": [{\"property_code\": \"A\",\n" \o FENCE,
     "[" \o ScoredItem("A", "9") \o "]",
     "I could not score these."}

ScoreTexts == ScoreTextsWellFormed \cup ScoreTextsWrongShape \cup ScoreTextsUnparseable

\* Answers to the roommate scoring prompt: one "NAME | SCORE | REASON"
\* line per candidate (src/rag_backend1.py:607-623).
Names == <<"Ana Ruiz", "Fay Mora", "Candidate_6", "Candidate_7", "Ben Ortiz">>
RoommateScoreValues == {"3", "7.5"}

ScoreLine(name, score) == name \o " | " \o score \o " | fits"

GeneratedRoommateTexts ==
    UNION {{Join([i \in 1..n |-> ScoreLine(Names[i], f[i])], "\n") : f \in [1..n -> RoommateScoreValues]}
           : n \in 1..MaxScored}

RoommateScoreTexts ==
    GeneratedRoommateTexts
    \cup {"Here are the scores:\n\n" \o ScoreLine("Fay Mora", "9") \o "\n" \o ScoreLine("Ana Ruiz", "9.5") \o "\n",
          ScoreLine("Ana Ruiz", "high") \o "\n" \o ScoreLine("Fay Mora", "6"),
          "Ana Ruiz | 9",
          ScoreLine("Ana Ruiz", "high"),
          ScoreLine("Ben Ortiz", "9") \o "\n" \o ScoreLine("Ana Ruiz", "7.5"),
          "No candidate fits the profile.",
          "   \n"}

\* The answers of the hosted model to each prompt.
ParseAnswers == GeminiFailures \cup Responses(ParseTexts)
ScoreAnswers == GeminiFailures \cup Responses(ScoreTexts)
RoommateScoreAnswers == GeminiFailures \cup Responses(RoommateScoreTexts)

(***************************************************************************)
(* The vector store: the apartments and students collections               *)
(* (src/rag_backend1.py:115-124), as ingestion left them.                  *)
(***************************************************************************)
AptMeta(code, price, district, neighborhood) ==
    PyDict([propertyCode |-> code, price |-> PyInt(price), district |-> PyStr(district),
            neighborhood |-> PyStr(neighborhood),
            url |-> PyStr("https://listing/" \o FmtValue(code))])

APARTMENTS ==
    <<[doc |-> "Bright exterior flat on a quiet street in Salamanca, third floor with lift.",
       meta |-> AptMeta(PyStr("A"), 2900, "Salamanca", "Goya")],
      [doc |-> "Interior studio near Retiro park.",
       meta |-> AptMeta(PyStr("B"), 1200, "Retiro", "Ibiza")],
      [doc |-> "Large family flat in Chamberi with terrace and nice views. "
               \o "Four double bedrooms, two bathrooms, a separate kitchen with a gallery, "
               \o "wooden floors, central heating, air conditioning, a doorman and a lift. "
               \o "Close to metro Iglesia and Bilbao, to schools, markets and supermarkets.",
       meta |-> AptMeta(PyInt(3), 3400, "Chamberi", "Almagro")]>>

\* The orders in which a query can rank the collection (nearest first).
AptRankings == {<<1, 2, 3>>, <<3, 1, 2>>}

StuMeta(name, lifestyle, sleep, noise, dog, chunk) ==
    PyDict([name |-> name, personality |-> PyStr("extroverted"),
            lifestyle_summary |-> PyStr(lifestyle), sleep_schedule |-> PyStr(sleep),
            noise_tolerance |-> PyStr(noise), dog_friendliness |-> PyStr(dog),
            cleanliness |-> PyStr("tidy"), study_habits |-> PyStr("library"),
            chunk_index |-> chunk])

STUDENTS ==
    <<[doc |-> "STUDENT 1 Ana Ruiz ...",
       meta |-> StuMeta(PyStr("Ana Ruiz"), "Spontaneous and social", "midnight", "high", "Loves dogs", PyStr("0"))],
      [doc |-> "STUDENT 2 Ben Ortiz ...",
       meta |-> StuMeta(PyStr("Ben Ortiz"), "Easygoing", "11pm", "medium", "Pet Allergic", PyStr("1"))],
      [doc |-> "STUDENT 3 Cleo Diaz ...",
       meta |-> StuMeta(PyStr("Cleo Diaz"), "Relaxed, likes cooking", "1am", "high", "no dogs please", PyStr("2"))],
      [doc |-> "STUDENT 4 Dan Vega ...",
       meta |-> StuMeta(PyStr("Dan Vega"), "Highly Structured days, plans every hour", "midnight", "high", "fine with dogs", PyStr("3"))],
      [doc |-> "STUDENT 5 Eva Sanz ...",
       meta |-> StuMeta(PyStr("Eva Sanz"), "Noise sensitive reader", "10:30pm", "low", "fine with dogs", PyStr("4"))],
      [doc |-> "STUDENT 6 Fay Mora ...",
       meta |-> StuMeta(PyStr("Fay Mora"), "Night owl", "2am", "noise sensitive", "not specified", PyStr("5"))],
      [doc |-> "STUDENT 7 ...",
       meta |-> StuMeta(PyStr("not specified"), "Unstructured routine, flexible", "10pm", "high", "not specified", PyStr("6"))],
      [doc |-> "personality survey chunk",
       meta |-> PyDict([type |-> PyStr("student_response"), chunk_index |-> PyInt(7)])],
      [doc |-> "STUDENT 9 Gus Leal ...",
       meta |-> StuMeta(PyStr("Gus Leal"), "Regimented, sticks to routine", "10pm", "noise sensitive", "allergic to dogs", PyStr("8"))],
      [doc |-> "STUDENT 10 ...",
       meta |-> StuMeta(PyStr("not specified"), "Follows a very strict plan", "1am", "high", "Loves dogs", PyStr("9"))]>>

\* The orders in which a query can rank the students: every rotation of
\* the collection, so that each record can come first.
StuRankings ==
    {[i \in 1..Len(STUDENTS) |-> ((k + i - 2) % Len(STUDENTS)) + 1] : k \in 1..Len(STUDENTS)}

\* The ranking that puts the first student record nearest.
StuRankingFirst == [i \in 1..Len(STUDENTS) |-> i]

\* n_results of the two queries
AptNResults == 5
StuNResults == 10

\* The answers of collection.query: it raises (the store or the embedding
\* of the query fails), or returns the nearest records, at most n_results.
RankedHitLists(collection, rankings, n_results) ==
    {[i \in 1..n |-> collection[r[i]]] : r \in rankings, n \in 0..MinOf(MinOf(MaxHits, n_results), Len(collection))}

QueryOutcomes(hitLists) ==
    {[kind |-> "raise", recs |-> <<>>]} \cup {[kind |-> "hits", recs |-> h] : h \in hitLists}

(***************************************************************************)
(* The context builders (src/rag_backend1.py:193-262).  A context is       *)
(* [exc, text, entries]: the exception that leaves the builder or "none",  *)
(* the text returned when there is nothing to list, and otherwise the      *)
(* entries of the listing in order, each with the fields the f-string      *)
(* renders.                                                                *)
(***************************************************************************)
\* ast.literal_eval(text) on the suggestedTexts the listings hold: dicts
\* and lists of quoted texts and integers.  On these the literal syntax is
\* the JSON syntax with single quotes; ok is FALSE where it raises.
literal_eval(text) == json_loads(Replace(text, "'", "\""))

\* re.search(r"'title':\s*'([^']+)'", text): the group of the leftmost
\* match, or None.
TitleSearch(text) ==
    LET key == "'title':"
        open(i) == SkipWs(text, i + Len(key))
        close(i) == {k \in (open(i) + 2)..Len(text) : Char(text, k) = "'"}
        found == {i \in 1..Len(text) :
                    /\ StartsAt(text, key, i)
                    /\ Char(text, open(i)) = "'"
                    /\ Char(text, open(i) + 1) \notin {"'", ""}
                    /\ close(i) # {}}
    IN IF found = {} THEN PyNone
       ELSE LET i == SetMin(found)
            IN PyStr(SubSeq(text, open(i) + 1, SetMin(close(i)) - 1))

\* Lines 238-252: the title of one apartment.  literal_eval raises
\* ValueError on a value that is no text; the handler then hands the value
\* to re.search, which raises TypeError.
ApartmentTitle(meta) ==
    LET generic == [exc |-> "none", title |-> "Property " \o FmtValue(DictGet(meta, "propertyCode"))]
        stxt == DictGet(meta, "suggestedTexts")
        parsed == literal_eval(stxt.s)
    IN IF ~Truthy(stxt) THEN generic
       ELSE IF stxt.t # "str" THEN [exc |-> "TypeError", title |-> ""]
       ELSE IF parsed.ok
            THEN (IF parsed.val.t = "dict" /\ Truthy(DictGet(parsed.val, "title"))
                  THEN [exc |-> "none", title |-> FmtValue(DictGet(parsed.val, "title"))]
                  ELSE generic)
       ELSE IF TitleSearch(stxt.s) # PyNone
            THEN [exc |-> "none", title |-> TitleSearch(stxt.s).s]
       ELSE generic

\* Lines 224-261: the entry of one apartment, given its title.
ApartmentEntry(doc, meta, title) ==
    [prop_id |-> FmtValue(DictGet(meta, "propertyCode")),
     title |-> title,
     district |-> FmtValue(PyOr(DictGet(meta, "district"), PyStr(""))),
     neighborhood |-> FmtValue(PyOr(DictGet(meta, "neighborhood"), PyStr(""))),
     price |-> FmtValue(DictGet(meta, "price")),
     url |-> FmtValue(DictGet(meta, "url")),
     doc |-> doc]

\* Lines 222-262: the listing, given the outcome of the title step for
\* each apartment; the first title that raises ends the call.
ContextOf(docs, metas, titles) ==
    LET bad == {i \in DOMAIN titles : titles[i].exc # "none"}
    IN IF bad # {} THEN [exc |-> titles[SetMin(bad)].exc, text |-> "", entries |-> <<>>]
       ELSE [exc |-> "none", text |-> "",
             entries |-> [i \in DOMAIN titles |-> ApartmentEntry(docs[i], metas[i], titles[i].title)]]

\* Lines 216-262: build_apartment_context(docs, metas); zip stops at the
\* shorter list.
build_apartment_context(docs, metas) ==
    IF docs = <<>> THEN [exc |-> "none", text |-> "No apartments retrieved.", entries |-> <<>>]
    ELSE ContextOf(docs, metas,
                   [i \in 1..MinOf(Len(docs), Len(metas)) |-> ApartmentTitle(metas[i])])

\* Lines 193-209: build_student_context(students); raw and meta are not
\* rendered.
build_student_context(students_) ==
    IF students_ = <<>>
    THEN [exc |-> "none", text |-> "No candidates after filtering.", entries |-> <<>>]
    ELSE [exc |-> "none", text |-> "",
          entries |-> [i \in 1..Len(students_) |->
                         [name |-> students_[i].name,
                          personality |-> FmtValue(students_[i].personality),
                          lifestyle |-> students_[i].lifestyle,
                          sleep |-> students_[i].sleep,
                          noise |-> students_[i].noise,
                          dog |-> students_[i].dog,
                          cleanliness |-> FmtValue(students_[i].cleanliness),
                          study |-> FmtValue(students_[i].study)]]]

\* The answers of the local summarization model.
SummarizeOutcomes ==
    {[kind |-> "exception", text |-> ""],
     [kind |-> "response", text |-> "Bright exterior flat in Salamanca with a lift, on a quiet street."]}

(***************************************************************************)
(* recommend_apartments (src/rag_backend1.py:342-552), step by step.  Each *)
(* step is a function of the locals and of the answer of the external call *)
(* it makes; its result says where the call goes next: on (pc), the return *)
(* value (ret) or the exception that leaves the function (exc).            *)
(***************************************************************************)
NoRet == [text |-> "", items |-> <<>>]
Returned(text) == [pc |-> "done", ret |-> [text |-> text, items |-> <<>>], exc |-> "none"]
ReturnedRanking(text, items) == [pc |-> "done", ret |-> [text |-> text, items |-> items], exc |-> "none"]
Raised(name) == [pc |-> "done", ret |-> NoRet, exc |-> name]
Continue(next) == [pc |-> next, ret |-> NoRet, exc |-> "none"]

NoLocals ==
    [apt_query |-> PyNone, structured |-> PyNone, prefs |-> PyNone, roommates |-> PyNone,
     budget_per_person |-> PyNone, effective_budget |-> PyNone]

\* isinstance(v, int) and isinstance(v, (int, float)): bool is an int.
IsNumber(v) == v.t \in {"int", "bool"}
NumberOf(v) == IF v.t = "bool" THEN (IF v.b THEN 1 ELSE 0) ELSE v.n

\* Lines 391-403: the locals read from the parsed object.
ParsedLocals(parsed, query) ==
    LET roommates == DictGet(parsed, "roommates")
        budget_per_person == DictGet(parsed, "budget")
        total_people == IF IsNumber(roommates) /\ NumberOf(roommates) > 0
                        THEN PyInt(NumberOf(roommates) + 1) ELSE PyNone
    IN [apt_query |-> PyOr(DictGet(parsed, "apartment_query"), PyStr(query)),
        structured |-> PyOr(DictGet(parsed, "structured_filters"), PyDict(<<>>)),
        prefs |-> PyOr(DictGet(parsed, "unstructured_preferences"), PyList(<<>>)),
        roommates |-> roommates,
        budget_per_person |-> budget_per_person,
        effective_budget |-> IF IsNumber(budget_per_person) /\ Truthy(total_people)
                             THEN PyInt(NumberOf(budget_per_person) * total_people.n)
                             ELSE PyNone]

\* The message of the JSONDecodeError json.loads raises.
DecodeErrorText == "Expecting value"

\* Lines 381-403: the query-parsing step, given the hosted model's answer.
ParseStep(query, outcome) ==
    LET parsed_raw == run_gemini(outcome, TRUE)
        parsed == json_loads(clean_json(parsed_raw))
    IN IF StartsWith(parsed_raw, "ERROR") THEN Returned(parsed_raw) @@ [loc |-> NoLocals]
       ELSE IF ~parsed.ok
            THEN Returned("ERROR: Failed to parse apartment parse JSON: " \o DecodeErrorText
                          \o "\nRaw: " \o parsed_raw) @@ [loc |-> NoLocals]
       ELSE IF parsed.val.t # "dict" THEN Raised("AttributeError") @@ [loc |-> NoLocals]
       ELSE Continue("apt_retrieve") @@ [loc |-> ParsedLocals(parsed.val, query)]

Docs(recs) == [i \in 1..Len(recs) |-> recs[i].doc]
Metas(recs) == [i \in 1..Len(recs) |-> recs[i].meta]

\* A retrieval step that goes on to scoring when the query raised.
RetrieveStepGoesOn(outcome) == Continue(IF outcome.recs = <<>> THEN "apt_score" ELSE "apt_summarize")

\* A retrieval step that queries again each time the query raises.
RetrieveStepRetries(outcome) ==
    LET documents == <<Docs(outcome.recs)>>
    IN IF outcome.kind = "raise" THEN Continue("apt_retrieve")
       ELSE IF documents = <<>> THEN Returned("No apartments found in database.")
       ELSE Continue(IF outcome.recs = <<>> THEN "apt_score" ELSE "apt_summarize")

\* Lines 410-422: the retrieval step, given the store's answer.  The
\* result's "documents" holds one list per query embedding, here one.
RetrieveStep(outcome) ==
    LET documents == <<Docs(outcome.recs)>>
    IN IF outcome.kind = "raise" THEN Returned("ERROR: Chroma query failed: unavailable")
       ELSE IF documents = <<>> THEN Returned("No apartments found in database.")
       ELSE Continue(IF outcome.recs = <<>> THEN "apt_score" ELSE "apt_summarize")

\* The locals still read after the retrieval step (lines 437-468): the
\* query texts, the raw parsing answer, the roommate count and the
\* per-person budget are not, and the model drops them there.
LiveLocals(l) ==
    [NoLocals EXCEPT !.structured = l.structured, !.prefs = l.prefs,
                     !.effective_budget = l.effective_budget]

\* A summarization loop whose handler appends an empty text.
SummarizeStepNoFallback(d, outcome) ==
    IF outcome.kind = "exception" THEN "" ELSE summarize_description(outcome)

\* Lines 426-431: one turn of the summarization loop, for document d.
SummarizeStep(d, outcome) ==
    IF outcome.kind = "exception" THEN Truncate(d, 200) ELSE summarize_description(outcome)

\* Lines 437-458: building the clauses of the scoring prompt reads the
\* parsed filters; the exception it raises on a value of the wrong type.
PromptError(l) ==
    IF l.structured.t # "dict" THEN "AttributeError"
    ELSE IF Truthy(DictGet(l.structured, "neighborhood")) /\ DictGet(l.structured, "neighborhood").t # "str"
         THEN "AttributeError"
    ELSE IF Truthy(l.prefs) /\ l.prefs.t \in {"int", "bool"} THEN "TypeError"
    ELSE IF l.prefs.t = "list" /\ \E i \in 1..Len(l.prefs.xs) : l.prefs.xs[i].t # "str"
         THEN "TypeError"
    ELSE "none"

\* Lines 434-458: the exception that leaves the function while it builds
\* the scoring prompt, or "none": the context is built first.
ScoringPromptError(l, context) ==
    IF context.exc # "none" THEN context.exc ELSE PromptError(l)

\* The key the sort lambda computes: x.get("total_score", 0).
ScoreKey(item) == DictGetDefault(item, "total_score", PyInt(0))

\* Lines 532-536: meta_by_code; of two records with one code the later wins.
MetaByCode(apt_metas, code) ==
    LET found == {i \in 1..Len(apt_metas) :
                    /\ DictGet(apt_metas[i], "propertyCode") # PyNone
                    /\ FmtValue(DictGet(apt_metas[i], "propertyCode")) = code}
    IN IF found = {} THEN PyDict(<<>>) ELSE apt_metas[CHOOSE i \in found : \A j \in found : j <= i]

\* Lines 539-550: the exception rendering one item raises, or "none".
RenderError(item) ==
    IF "property_code" \notin DOMAIN item.d THEN "KeyError"
    ELSE IF "total_score" \notin DOMAIN item.d THEN "KeyError"
    ELSE IF item.d["total_score"].t = "str" THEN "ValueError"
    ELSE IF ~IsNumber(item.d["total_score"]) THEN "TypeError"
    ELSE IF "reasoning" \notin DOMAIN item.d THEN "KeyError"
    ELSE "none"

\* Lines 539-550: one rendered line of the result.
RenderApartment(item, apt_metas) ==
    LET code == FmtValue(item.d["property_code"])
        meta == MetaByCode(apt_metas, code)
    IN [id |-> code,
        district |-> FmtValue(DictGetDefault(meta, "district", PyStr(""))),
        neighborhood |-> FmtValue(DictGetDefault(meta, "neighborhood", PyStr(""))),
        price |-> FmtValue(DictGetDefault(meta, "price", PyStr("N/A"))),
        url |-> FmtValue(DictGetDefault(meta, "url", PyStr("None"))),
        score |-> NumberOf(item.d["total_score"]),
        reason |-> FmtValue(item.d["reasoning"])]

\* Lines 528-529: scored_list.sort(key=..., reverse=True); scored_list[:top_k]
TopApartments(items, k) ==
    LET keyed == [i \in 1..Len(items) |-> [key |-> NumberOf(ScoreKey(items[i])), item |-> items[i]]]
        sorted == SortDescending(keyed)
    IN Take([i \in 1..Len(sorted) |-> sorted[i].item], k)

\* Whether the sort can compare two keys with "<": two numbers, or two
\* texts; any other pair raises TypeError.
Comparable(a, b) == (IsNumber(a) /\ IsNumber(b)) \/ (a.t = "str" /\ b.t = "str")

\* Lines 523-552: rank, cut and render a non-empty scored list.  A list
\* whose keys are texts is sorted as texts and its first item raises when
\* rendered; the answers modelled hold at most one item with a text score.
RankStep(items, k, apt_metas) ==
    IF \E i \in 1..Len(items) : items[i].t # "dict" THEN Raised("AttributeError")
    ELSE IF \E i, j \in 1..Len(items) : i # j /\ ~Comparable(ScoreKey(items[i]), ScoreKey(items[j]))
         THEN Raised("TypeError")
    ELSE IF \E i \in 1..Len(items) : ~IsNumber(ScoreKey(items[i]))
         THEN Raised(RenderError(items[1]))
    ELSE LET top == TopApartments(items, k)
             bad == {i \in 1..Len(top) : RenderError(top[i]) # "none"}
         IN IF bad # {} THEN Raised(RenderError(top[SetMin(bad)]))
            ELSE ReturnedRanking("Top apartment matches:\n",
                                 [i \in 1..Len(top) |-> RenderApartment(top[i], apt_metas)])

\* json.loads(clean_json(score_raw)) for each text the scoring call can
\* return, computed once per text.
LoadedScores == [o \in ScoreAnswers |-> json_loads(clean_json(run_gemini(o, TRUE)))]

\* Lines 513-552: the scoring step, given the hosted model's answer.
ScoreStep(outcome, k, apt_metas) ==
    LET score_raw == run_gemini(outcome, TRUE)
        cleaned == clean_json(score_raw)
        scores == LoadedScores[outcome]
        scored_list == PyOr(DictGet(scores.val, "apartments"), PyList(<<>>))
    IN IF StartsWith(score_raw, "ERROR") THEN Returned(score_raw)
       ELSE IF ~scores.ok
            THEN Returned("ERROR: Failed to parse apartment scores JSON: " \o DecodeErrorText
                          \o "\nRaw: " \o cleaned)
       ELSE IF scores.val.t # "dict" THEN Raised("AttributeError")
       ELSE IF ~Truthy(scored_list) THEN Returned("No apartment scores returned by LLM.")
       ELSE IF scored_list.t # "list" THEN Raised("AttributeError")
       ELSE RankStep(scored_list.xs, k, apt_metas)

\* The scored list as the model returned it, when the step ranks one.
ScoredList(outcome) == DictGet(LoadedScores[outcome].val, "apartments").xs

(***************************************************************************)
(* The arguments of a direct call of build_apartment_context: up to        *)
(* MaxContext apartments, each with a propertyCode and one of the values   *)
(* metadata can hold under suggestedTexts (or none).                       *)
(***************************************************************************)
MaxContext == 2

SuggestedTexts ==
    {PyStr("{'title': 'Piso en Goya', 'subtitle': 'Salamanca, Madrid'}"),
     PyStr("{'subtitle': 'Retiro, Madrid'}"),
     PyStr("{'title': ''}"),
     PyStr("['Piso', 'Madrid']"),
     PyStr("{'title':  'Loft en Sol', 'subtitle': nan}"),
     PyStr("not a mapping"),
     PyStr(""),
     PyInt(5), PyInt(0), PyBool(TRUE)}

ContextMetas ==
    {PyDict([propertyCode |-> code]) : code \in {PyStr("A"), PyInt(3)}}
    \cup {PyDict([propertyCode |-> code, suggestedTexts |-> stxt]) :
             code \in {PyStr("A"), PyInt(3)}, stxt \in SuggestedTexts}

ContextArgs ==
    UNION {[1..n -> ContextMetas] : n \in 1..MaxContext}

NotBuilt == [metas |-> <<>>, context |-> [exc |-> "none", text |-> "", entries |-> <<>>]]

(***************************************************************************)
(* rag_backend.py: run_llm (41-60) and _safe_json_parse (63-79).  The      *)
(* answer of the local model server is an outcome [kind, text]: kind       *)
(* "request_exception" (requests raises: no connection, a timeout, an HTTP *)
(* error status), "bad_payload" (the JSON of the reply holds no            *)
(* choices[0].message.content) or "response" with the content.             *)
(***************************************************************************)
\* run_llm(prompt): [exc, text].  Only RequestException is caught.
run_llm(outcome) ==
    CASE outcome.kind = "request_exception" ->
           [exc |-> "none", text |-> "ERROR: LLM connection failed: " \o outcome.text]
      [] outcome.kind = "bad_payload" -> [exc |-> "KeyError", text |-> ""]
      [] OTHER -> [exc |-> "none", text |-> outcome.text]

\* re.search(r"\{.*\}", text, re.DOTALL): from the first opening brace to
\* the last closing brace after it; ok is FALSE when there is no match.
BraceMatch(text) ==
    LET first == Find(text, "{") + 1
        closing == {k \in 1..Len(text) : Char(text, k) = "}" /\ k > first}
        last == CHOOSE k \in closing : \A m \in closing : m <= k
    IN IF first = 0 \/ closing = {} THEN [ok |-> FALSE, s |-> ""]
       ELSE [ok |-> TRUE, s |-> SubSeq(text, first, last)]

\* _safe_json_parse(llm_response): the parsed object, or {} when there is
\* no match or json.loads raises.
safe_json_parse(llm_response) ==
    LET match == BraceMatch(llm_response)
        loaded == json_loads(match.s)
    IN IF ~match.ok THEN PyDict(<<>>)
       ELSE IF ~loaded.ok THEN PyDict(<<>>)
       ELSE loaded.val

\* The requests and the answers of the local model to the disambiguation
\* prompt and to the synthesis prompt.
RecommendQueries ==
    {"Flat in Salamanca under 1000. I am a quiet student.",
     "Two rooms near Retiro. I am social and a bit messy."}

LlmFailures ==
    {[kind |-> "request_exception", text |-> "connection refused"],
     [kind |-> "bad_payload", text |-> ""]}

DisambiguationTexts ==
    {"{\"apartment_query\": \"flat in Salamanca\", \"user_profile\": \"quiet student\"}",
     "Sure! {\"apartment_query\": \"flat in Salamanca\"} Hope it helps.",
     "{\"user_profile\": \"social and messy\"}",
     "{\"apartment_query\": \"flat in Salamanca\", \"user_profile\": \"IT student, reads ERROR logs at night\"}",
     "I cannot split this request.",
     "{\"apartment_query\": \"flat in Salamanca\", \"user_profile\": \"quiet student\"",
     "{apartment_query: flat}",
     ""}

SynthesisTexts == {"**Best Roommate:** Ana Ruiz\n**Best Apartment PROPERTY_CODE:** A"}

DisambiguationAnswers == LlmFailures \cup Responses(DisambiguationTexts)
SynthesisAnswers == LlmFailures \cup Responses(SynthesisTexts)

\* The defaults of recommend(query, n_apts, n_students)
n_apts == 3
n_students == 6

NoRequest ==
    [pc |-> "idle", query |-> "", llm_response |-> "", apartment_query |-> PyNone,
     user_profile |-> PyNone, apt_res |-> <<>>, stu_res |-> <<>>, ret |-> "", exc |-> "none",
     calls |-> <<>>]

\* Lines 175-181: the disambiguation step, given the answer of the model.
DisambiguateStep(query, outcome) ==
    LET llm_response == run_llm(outcome)
        queries == safe_json_parse(llm_response.text)
    IN IF llm_response.exc # "none"
       THEN [pc |-> "done", exc |-> llm_response.exc, ret |-> "",
             apartment_query |-> PyNone, user_profile |-> PyNone]
       ELSE IF Contains(llm_response.text, "ERROR")
       THEN [pc |-> "done", exc |-> "none", ret |-> llm_response.text,
             apartment_query |-> PyNone, user_profile |-> PyNone]
       ELSE [pc |-> "retrieve", exc |-> "none", ret |-> "",
             apartment_query |-> DictGetDefault(queries, "apartment_query", PyStr(query)),
             user_profile |-> DictGetDefault(queries, "user_profile", PyStr(query))]

\* DisambiguateStep for each request and answer, computed once.
Disambiguated ==
    [q \in RecommendQueries |-> [o \in DisambiguationAnswers |-> DisambiguateStep(q, o)]]

(***************************************************************************)
(* recommend_roommates (src/rag_backend1.py:559-673)                       *)
(***************************************************************************)
\* str.splitlines(), for "\n" line ends
RECURSIVE SplitLines(_)
SplitLines(text) ==
    LET i == Find(text, "\n")
    IN IF text = "" THEN <<>>
       ELSE IF i < 0 THEN <<text>>
       ELSE <<SubSeq(text, 1, i)>> \o SplitLines(DropFirst(text, i + 1))

\* str.split(sep, maxsplit)
RECURSIVE Split(_, _, _)
Split(text, sep, maxsplit) ==
    LET i == Find(text, sep)
    IN IF maxsplit = 0 \/ i < 0 THEN <<text>>
       ELSE <<SubSeq(text, 1, i)>> \o Split(DropFirst(text, i + Len(sep)), sep, maxsplit - 1)

\* float(text) for decimal literals with at most one fractional digit: ok
\* is FALSE where float raises ValueError, v is the value in tenths.
ParseFloat(text) ==
    LET neg == Char(text, 1) = "-"
        d == IF neg THEN 2 ELSE 1
        e == SkipDigits(text, d)
        whole == DigitsVal(text, d, e, 0)
        sign == IF neg THEN -1 ELSE 1
    IN IF e = d THEN [ok |-> FALSE, v |-> 0]
       ELSE IF e > Len(text) THEN [ok |-> TRUE, v |-> sign * whole * 10]
       ELSE IF Char(text, e) = "." /\ e + 1 = Len(text) /\ IsDigit(Char(text, e + 1))
            THEN [ok |-> TRUE, v |-> sign * (whole * 10 + DigitVal(Char(text, e + 1)))]
       ELSE [ok |-> FALSE, v |-> 0]

\* Lines 633-652: parse_student_scores
RECURSIVE ParseLines(_, _)
ParseLines(lines, i) ==
    IF i > Len(lines) THEN <<>>
    ELSE LET line == Strip(lines[i])
             raw_parts == Split(line, "|", 2)
             parts == [j \in 1..Len(raw_parts) |-> Strip(raw_parts[j])]
             score == ParseFloat(parts[2])
         IN IF line = "" \/ ~Contains(line, "|") THEN ParseLines(lines, i + 1)
            ELSE IF Len(parts) < 3 THEN ParseLines(lines, i + 1)
            ELSE IF ~score.ok THEN ParseLines(lines, i + 1)
            ELSE <<[name |-> parts[1], score |-> score.v, reasoning |-> parts[3]]>>
                 \o ParseLines(lines, i + 1)

parse_student_scores(text) == ParseLines(SplitLines(text), 1)

\* A roommate retrieval step that goes on to scoring with no candidate left.
RoommateRetrieveStepNoCheck(outcome) ==
    LET kept == filter_students(Docs(outcome.recs), Metas(outcome.recs))
    IN IF outcome.kind = "raise"
       THEN Returned("ERROR: Chroma query failed: unavailable") @@ [students |-> <<>>]
       ELSE Continue("rm_score") @@ [students |-> kept]

\* Lines 568-584: retrieval and the deterministic filter, given the
\* store's answer.
RoommateRetrieveStep(outcome) ==
    LET documents == <<Docs(outcome.recs)>>
        kept == filter_students(Docs(outcome.recs), Metas(outcome.recs))
    IN IF outcome.kind = "raise"
       THEN Returned("ERROR: Chroma query failed: unavailable") @@ [students |-> <<>>]
       ELSE IF documents = <<>>
            THEN Returned("No roommate candidates found in database.") @@ [students |-> <<>>]
       ELSE IF kept = <<>>
            THEN Returned("No compatible roommate candidates after basic filtering.")
                 @@ [students |-> <<>>]
       ELSE Continue("rm_score") @@ [students |-> kept]

\* Lines 663-664: scored_students.sort(key=..., reverse=True); [:top_k]
TopStudents(scored_students, k) ==
    LET keyed == [i \in 1..Len(scored_students) |-> [key |-> scored_students[i].score, item |-> scored_students[i]]]
        sorted == SortDescending(keyed)
    IN Take([i \in 1..Len(sorted) |-> sorted[i].item], k)

\* parse_student_scores(rm_raw) for each text the scoring call can return,
\* computed once per text.
ParsedStudentScores ==
    [o \in RoommateScoreAnswers |-> parse_student_scores(run_gemini(o, FALSE))]

\* Lines 654-673: the scoring step, given the hosted model's answer.
RoommateScoreStep(outcome, k) ==
    LET rm_raw == run_gemini(outcome, FALSE)
        scored_students == ParsedStudentScores[outcome]
        top == TopStudents(scored_students, k)
    IN IF StartsWith(rm_raw, "ERROR") THEN Returned(rm_raw)
       ELSE IF scored_students = <<>>
            THEN Returned("No roommate scores returned.\nRaw output:\n" \o rm_raw)
       ELSE ReturnedRanking("Top roommate matches:\n",
                            [i \in 1..Len(top) |->
                                [id |-> top[i].name, score |-> top[i].score,
                                 reason |-> top[i].reasoning]])

(***************************************************************************)
(* State: one recommendation request at a time (the calls are synchronous  *)
(* and keep nothing between requests).                                     *)
(*   pc               where the running call stands                        *)
(*   fn               the function called                                  *)
(*   user_query       its text argument (user_query, user_profile_query)   *)
(*   top_k            its top_k argument                                   *)
(*   loc              the locals set by the query-parsing step             *)
(*   hits             the records the vector query returned                *)
(*   summarized_docs  the local of that name                               *)
(*   students         the output of filter_students                        *)
(*   llm_raw          the text run_gemini returned last                    *)
(*   scored           the scored list as parsed, before it is sorted       *)
(*   ret, exc         the return value; the exception raised to the caller *)
(*   calls            the external calls made so far by this request       *)
(***************************************************************************)
VARIABLES pc, fn, user_query, top_k, loc, hits, summarized_docs, students,
          llm_raw, scored, ret, exc, calls

\* The candidates listed in the prompt of the scoring call, in order.
VARIABLES prompt

\* A direct call of build_apartment_context: its arguments and its result.
VARIABLES built

\* A call of rag_backend.recommend: where it is, its locals and its result.
VARIABLES request

callVars == <<built, request>>

\* The records of the two collections the module got at import
\* (src/rag_backend1.py:122-123), which the vector queries read.
VARIABLES apts_collection, students_collection

storeVars == <<apts_collection, students_collection>>

recommendVars == <<pc, fn, user_query, top_k, loc, hits, summarized_docs, students,
                   llm_raw, scored, ret, exc, calls, prompt, storeVars, callVars>>

(***************************************************************************)
(* The embeddings of the vector stores, as the ingestion scripts and the   *)
(* query paths leave them:                                                 *)
(*   chroma_store      the collections of ./chroma_store, each with the    *)
(*                     records added to it                                 *)
(*   chroma_db         the apartments collection of ./chroma_db            *)
(*   query_embeddings  the embeddings the backend queried a collection of  *)
(*                     ./chroma_store with                                 *)
(*   runs              the number of ingestion runs so far                 *)
(***************************************************************************)
VARIABLES chroma_store, chroma_db, query_embeddings, runs

ingestVars == <<chroma_store, chroma_db, query_embeddings, runs>>

(***************************************************************************)
(* The questionnaire application (src/app.py):                             *)
(*   users               the rows of the Supabase table users              *)
(*   roommate_profiles, apartment_listings, user_profiles                  *)
(*                       the records of the Chroma collections of ./.chroma*)
(*   session_state       st.session_state of the one browser session       *)
(*   embedded            the texts passed to embed_text, in order          *)
(*   submissions         the forms submitted so far, each with what the    *)
(*                       handler did with it                               *)
(***************************************************************************)
VARIABLES users, roommate_profiles, apartment_listings, user_profiles,
          session_state, embedded, submissions

\* Two sessions that run the questionnaire handler at the same time:
\* proc[p] holds where session p is in the handler and its locals.
VARIABLES proc

appVars == <<users, roommate_profiles, apartment_listings, user_profiles,
             session_state, embedded, submissions, proc>>

vars == <<recommendVars, ingestVars, appVars>>

ApartmentQueries == {"Flat in Salamanca for me and 2 roommates, 1000 each, quiet", ""}
ProfileQueries == {"Extroverted and spontaneous, I have a dog and need dog-friendly roommates.",
                   "Quiet night owl who studies late.", ""}

\* No collection exists yet in either store.
NoCollection == [exists |-> FALSE, records |-> {}]

IngestInit ==
    /\ chroma_store = [c \in {"apartments", "students"} |-> NoCollection]
    /\ chroma_db = NoCollection
    /\ query_embeddings = {}
    /\ runs = 0

\* The two concurrent sessions; neither has pressed the button yet.
Procs == {"A", "B"}

NotSubmitted ==
    [pc |-> "start", form |-> PyNone, user_uuid |-> "", r_count |-> 0, a_count |-> 0,
     match |-> PyNone]

\* Lines 195-200: the session state of a new session; the table and the
\* collections are empty.
AppInit ==
    /\ users = <<>>
    /\ roommate_profiles = {}
    /\ apartment_listings = {}
    /\ user_profiles = {}
    /\ session_state = [last_match |-> PyNone, user_uuid |-> PyNone, trait_avgs |-> <<>>]
    /\ embedded = <<>>
    /\ submissions = <<>>
    /\ proc = [p \in Procs |-> NotSubmitted]

Init ==
    /\ pc = "idle"
    /\ fn = "none"
    /\ user_query = ""
    /\ top_k = 0
    /\ loc = NoLocals
    /\ hits = <<>>
    /\ summarized_docs = <<>>
    /\ students = <<>>
    /\ llm_raw = ""
    /\ scored = <<>>
    /\ ret = NoRet
    /\ exc = "none"
    /\ calls = <<>>
    /\ prompt = <<>>
    /\ built = NotBuilt
    /\ request = NoRequest
    /\ apts_collection = APARTMENTS
    /\ students_collection = STUDENTS
    /\ IngestInit
    /\ AppInit

Called(stage, ok) == Append(calls, [stage |-> stage, ok |-> ok])

\* A caller calls recommend_apartments(user_query, top_k).
ApStart ==
    /\ pc = "idle"
    /\ \E q \in ApartmentQueries, k \in 1..MaxTopK :
          /\ user_query' = q
          /\ top_k' = k
    /\ fn' = "apartments"
    /\ pc' = "apt_parse"
    /\ UNCHANGED <<loc, hits, summarized_docs, students, llm_raw, scored, ret, exc, calls>>
    /\ UNCHANGED <<prompt, storeVars, callVars, ingestVars, appVars>>

\* Lines 381-403: the disambiguation call and the parsing of its answer.
ApParse ==
    /\ pc = "apt_parse"
    /\ \E o \in ParseAnswers :
          LET step == ParseStep(user_query, o)
          IN /\ pc' = step.pc
             /\ ret' = step.ret
             /\ exc' = step.exc
             /\ loc' = step.loc
             /\ llm_raw' = run_gemini(o, TRUE)
             /\ calls' = Called("parse", GeminiAnswered(o))
    /\ UNCHANGED <<fn, user_query, top_k, hits, summarized_docs, students, scored>>
    /\ UNCHANGED <<prompt, storeVars, callVars, ingestVars, appVars>>

\* Lines 410-422: the vector query.
ApRetrieve ==
    /\ pc = "apt_retrieve"
    /\ \E o \in QueryOutcomes(RankedHitLists(apts_collection, AptRankings, AptNResults)) :
          LET step == RetrieveStep(o)
          IN /\ pc' = step.pc
             /\ ret' = step.ret
             /\ exc' = step.exc
             /\ hits' = o.recs
             /\ calls' = Called("query", o.kind = "hits")
    /\ loc' = LiveLocals(loc)
    /\ user_query' = ""
    /\ llm_raw' = ""
    /\ UNCHANGED <<fn, top_k, summarized_docs, students, scored>>
    /\ UNCHANGED <<prompt, storeVars, callVars, ingestVars, appVars>>

\* Lines 426-431: one turn of the summarization loop.
ApSummarize ==
    /\ pc = "apt_summarize"
    /\ \E o \in SummarizeOutcomes :
          /\ summarized_docs' = Append(summarized_docs,
                                       SummarizeStep(hits[Len(summarized_docs) + 1].doc, o))
          /\ calls' = Called("summarize", o.kind = "response")
    /\ pc' = IF Len(summarized_docs) + 1 = Len(hits) THEN "apt_score" ELSE "apt_summarize"
    /\ UNCHANGED <<fn, user_query, top_k, loc, hits, students, llm_raw, scored, ret, exc>>
    /\ UNCHANGED <<prompt, storeVars, callVars, ingestVars, appVars>>

\* Lines 437-458: building the scoring prompt raises on parsed filters of
\* the wrong type, before the scoring call is made.
ApPromptFails ==
    /\ pc = "apt_score"
    /\ \E context \in {build_apartment_context(summarized_docs, Metas(hits))} :
          /\ ScoringPromptError(loc, context) # "none"
          /\ exc' = ScoringPromptError(loc, context)
    /\ pc' = "done"
    /\ UNCHANGED <<fn, user_query, top_k, loc, hits, summarized_docs, students, llm_raw,
                   scored, ret, calls>>
    /\ UNCHANGED <<prompt, storeVars, callVars, ingestVars, appVars>>

\* Lines 513-552: the scoring call, the ranking and the rendering.
ApScore ==
    /\ pc = "apt_score"
    /\ \E context \in {build_apartment_context(summarized_docs, Metas(hits))} :
          /\ ScoringPromptError(loc, context) = "none"
          /\ prompt' = context.entries
    /\ \E o \in ScoreAnswers :
          LET step == ScoreStep(o, top_k, Metas(hits))
          IN /\ pc' = step.pc
             /\ ret' = step.ret
             /\ exc' = step.exc
             /\ llm_raw' = run_gemini(o, TRUE)
             /\ scored' = IF step.ret.items # <<>> THEN ScoredList(o) ELSE <<>>
             /\ calls' = Called("score", GeminiAnswered(o))
    /\ UNCHANGED <<fn, user_query, top_k, loc, hits, summarized_docs, students>>
    /\ UNCHANGED <<storeVars, callVars, ingestVars, appVars>>

\* A caller calls recommend_roommates(user_profile_query, top_k).
RmStart ==
    /\ pc = "idle"
    /\ \E q \in ProfileQueries, k \in 1..MaxTopK :
          /\ user_query' = q
          /\ top_k' = k
    /\ fn' = "roommates"
    /\ pc' = "rm_retrieve"
    /\ UNCHANGED <<loc, hits, summarized_docs, students, llm_raw, scored, ret, exc, calls>>
    /\ UNCHANGED <<prompt, storeVars, callVars, ingestVars, appVars>>

\* Lines 568-584: the vector query and filter_students.
RmRetrieve ==
    /\ pc = "rm_retrieve"
    /\ \E o \in QueryOutcomes(RankedHitLists(students_collection, StuRankings, StuNResults)) :
          LET step == RoommateRetrieveStep(o)
          IN /\ pc' = step.pc
             /\ ret' = step.ret
             /\ exc' = step.exc
             /\ students' = step.students
             /\ hits' = o.recs
             /\ calls' = Called("query", o.kind = "hits")
    /\ UNCHANGED <<fn, user_query, top_k, loc, summarized_docs, llm_raw, scored>>
    /\ UNCHANGED <<prompt, storeVars, callVars, ingestVars, appVars>>

\* Lines 654-673: the scoring call, the ranking and the rendering.
RmScore ==
    /\ pc = "rm_score"
    /\ prompt' = build_student_context(students).entries
    /\ \E o \in RoommateScoreAnswers :
          LET step == RoommateScoreStep(o, top_k)
          IN /\ pc' = step.pc
             /\ ret' = step.ret
             /\ exc' = step.exc
             /\ llm_raw' = run_gemini(o, FALSE)
             /\ scored' = IF step.ret.items # <<>> THEN ParsedStudentScores[o] ELSE <<>>
             /\ calls' = Called("score", GeminiAnswered(o))
    /\ UNCHANGED <<fn, user_query, top_k, loc, hits, summarized_docs, students>>
    /\ UNCHANGED <<storeVars, callVars, ingestVars, appVars>>

\* A return after which the module still holds the retrieved records.
FinishKeepsHits ==
    /\ pc = "done"
    /\ pc' = "idle"
    /\ fn' = "none"
    /\ user_query' = ""
    /\ top_k' = 0
    /\ loc' = NoLocals
    /\ summarized_docs' = <<>>
    /\ students' = <<>>
    /\ llm_raw' = ""
    /\ scored' = <<>>
    /\ ret' = NoRet
    /\ exc' = "none"
    /\ calls' = <<>>
    /\ prompt' = <<>>
    /\ UNCHANGED <<hits, storeVars, callVars, ingestVars, appVars>>

\* The call has returned or raised; its locals are gone and the module
\* keeps nothing of it.
Finish ==
    /\ pc = "done"
    /\ pc' = "idle"
    /\ fn' = "none"
    /\ user_query' = ""
    /\ top_k' = 0
    /\ loc' = NoLocals
    /\ hits' = <<>>
    /\ summarized_docs' = <<>>
    /\ students' = <<>>
    /\ llm_raw' = ""
    /\ scored' = <<>>
    /\ ret' = NoRet
    /\ exc' = "none"
    /\ calls' = <<>>
    /\ prompt' = <<>>
    /\ UNCHANGED <<storeVars, callVars, ingestVars, appVars>>

Next ==
    \/ ApStart
    \/ ApParse
    \/ ApRetrieve
    \/ ApSummarize
    \/ ApPromptFails
    \/ ApScore
    \/ RmStart
    \/ RmRetrieve
    \/ RmScore
    \/ Finish

Spec == Init /\ [][Next]_vars

(***************************************************************************)
(* build_apartment_context called directly on retrieved apartments whose   *)
(* summaries are "summary 1", "summary 2", ...                             *)
(***************************************************************************)
SummaryOf(i) == "summary " \o IntStr(i)

BuildApartmentContext ==
    /\ built = NotBuilt
    /\ \E metas \in ContextArgs :
          built' = [metas |-> metas,
                    context |-> build_apartment_context([i \in 1..Len(metas) |-> SummaryOf(i)], metas)]
    /\ UNCHANGED <<pc, fn, user_query, top_k, loc, hits, summarized_docs, students,
                   llm_raw, scored, ret, exc, calls, prompt, storeVars, request>>
    /\ UNCHANGED <<ingestVars, appVars>>

\* The call is over; the caller makes the next one.
ContextReturns ==
    /\ built # NotBuilt
    /\ built' = NotBuilt
    /\ UNCHANGED <<pc, fn, user_query, top_k, loc, hits, summarized_docs, students,
                   llm_raw, scored, ret, exc, calls, prompt, storeVars, request>>
    /\ UNCHANGED <<ingestVars, appVars>>

NextContext ==
    \/ BuildApartmentContext
    \/ ContextReturns

SpecContext == Init /\ [][NextContext]_vars

(***************************************************************************)
(* rag_backend.recommend (src/rag_backend.py:157-264), step by step.       *)
(***************************************************************************)
LlmCalled(stage, outcome) ==
    Append(request.calls, [stage |-> stage, ok |-> outcome.kind = "response"])

\* A caller calls recommend(query).
RcStart ==
    /\ request.pc = "idle"
    /\ \E q \in RecommendQueries :
          request' = [NoRequest EXCEPT !.pc = "disambiguate", !.query = q]
    /\ UNCHANGED <<pc, fn, user_query, top_k, loc, hits, summarized_docs, students,
                   llm_raw, scored, ret, exc, calls, prompt, storeVars, built>>
    /\ UNCHANGED <<ingestVars, appVars>>

\* Lines 175-181: the disambiguation call and the parsing of its answer.
RcDisambiguate ==
    /\ request.pc = "disambiguate"
    /\ \E o \in DisambiguationAnswers :
          LET step == Disambiguated[request.query][o]
          IN request' = [request EXCEPT !.pc = step.pc, !.exc = step.exc, !.ret = step.ret,
                                        !.llm_response = run_llm(o).text,
                                        !.apartment_query = step.apartment_query,
                                        !.user_profile = step.user_profile,
                                        !.calls = LlmCalled("disambiguate", o)]
    /\ UNCHANGED <<pc, fn, user_query, top_k, loc, hits, summarized_docs, students,
                   llm_raw, scored, ret, exc, calls, prompt, storeVars, built>>
    /\ UNCHANGED <<ingestVars, appVars>>

\* Lines 189-206: the two vector queries; any exception ends the call
\* with an error text.
RcRetrieve ==
    /\ request.pc = "retrieve"
    /\ \/ request' = [request EXCEPT !.pc = "done",
                                      !.ret = "ERROR: ChromaDB query failed: unavailable"]
       \/ \E a \in RankedHitLists(apts_collection, AptRankings, n_apts),
             c \in RankedHitLists(students_collection, {StuRankingFirst}, n_students) :
             request' = [request EXCEPT !.pc = "synthesize", !.apt_res = a, !.stu_res = c]
    /\ UNCHANGED <<pc, fn, user_query, top_k, loc, hits, summarized_docs, students,
                   llm_raw, scored, ret, exc, calls, prompt, storeVars, built>>
    /\ UNCHANGED <<ingestVars, appVars>>

\* Lines 208-264: the synthesis call; its answer is the result.
RcSynthesize ==
    /\ request.pc = "synthesize"
    /\ \E o \in SynthesisAnswers :
          request' = [request EXCEPT !.pc = "done", !.exc = run_llm(o).exc,
                                    !.ret = run_llm(o).text,
                                    !.calls = LlmCalled("synthesize", o)]
    /\ UNCHANGED <<pc, fn, user_query, top_k, loc, hits, summarized_docs, students,
                   llm_raw, scored, ret, exc, calls, prompt, storeVars, built>>
    /\ UNCHANGED <<ingestVars, appVars>>

\* The call has returned or raised.
RcFinish ==
    /\ request.pc = "done"
    /\ request' = NoRequest
    /\ UNCHANGED <<pc, fn, user_query, top_k, loc, hits, summarized_docs, students,
                   llm_raw, scored, ret, exc, calls, prompt, storeVars, built>>
    /\ UNCHANGED <<ingestVars, appVars>>

NextRecommend ==
    \/ RcStart
    \/ RcDisambiguate
    \/ RcRetrieve
    \/ RcSynthesize
    \/ RcFinish

SpecRecommend == Init /\ [][NextRecommend]_vars

(***************************************************************************)
(* Ingestion (src/embed_index.py, src/embed_index_V2.py,                   *)
(* src/extract_students_metadata.py, src/embeddings.py) and the query      *)
(* embeddings of the backend (src/rag_backend1.py:106-123).  An embedding  *)
(* is known by the model that encoded it and by whether it has unit        *)
(* length; a record by its id and its embedding.                           *)
(***************************************************************************)
EMBED_MODEL == "all-MiniLM-L6-v2"

\* The values of the --model argument of the ingestion scripts: the
\* default and another model of the same dimension.
ModelArgs == {EMBED_MODEL, "paraphrase-MiniLM-L6-v2"}

MaxIngestRuns == 3

Embedding(model, normalized) == [model |-> model, normalized |-> normalized]

\* LocalEmbedder(model_name).embed and embed_texts:
\* encode(texts, normalize_embeddings=True).
LocalEmbedder(model_name) == Embedding(model_name, TRUE)

\* embed_query: the module's embedder, SentenceTransformer(EMBED_MODEL),
\* with normalize_embeddings=True.
embed_query == Embedding(EMBED_MODEL, TRUE)

Record(id, emb) == [id |-> id, emb |-> emb]

Ids(records) == {r.id : r \in records}

\* collection.add: the records whose id the collection does not hold yet
\* are added (a record of a known id is left as it is).
AddRows(collection, rows) ==
    [exists |-> TRUE,
     records |-> collection.records \cup {r \in rows : r.id \notin Ids(collection.records)}]

\* client.delete_collection(name) under --reset, then get_or_create.
Reset(collection, reset) == IF reset THEN NoCollection ELSE collection

\* rows_from_apartments_csv: each row gets a fresh id apt::<uuid4>.
AptRows(model) == {Record("apt::" \o IntStr(runs + 1), LocalEmbedder(model))}

\* python embed_index.py [--model M] [--reset-apartments]
EmbedIndexMain ==
    /\ runs < MaxIngestRuns
    /\ \E model \in ModelArgs, reset_apartments \in BOOLEAN :
          chroma_store' = [chroma_store EXCEPT
              !["apartments"] = AddRows(Reset(@, reset_apartments), AptRows(model))]
    /\ runs' = runs + 1
    /\ UNCHANGED <<chroma_db, query_embeddings>>
    /\ UNCHANGED <<recommendVars, appVars>>

\* python embed_index_V2.py [--model M] [--reset-students]: the apartments
\* of the CSV and the chunks of the PDF, whose ids are
\* studentpdf::<file>::<i>.
EmbedIndexV2Main ==
    /\ runs < MaxIngestRuns
    /\ \E model \in ModelArgs, reset_students \in BOOLEAN :
          chroma_store' = [chroma_store EXCEPT
              !["apartments"] = AddRows(@, AptRows(model)),
              !["students"] = AddRows(Reset(@, reset_students),
                                      {Record("studentpdf::students.pdf::0", LocalEmbedder(model))})]
    /\ runs' = runs + 1
    /\ UNCHANGED <<chroma_db, query_embeddings>>
    /\ UNCHANGED <<recommendVars, appVars>>

\* python extract_students_metadata.py --pdf P [--model M] [--reset]: one
\* record student::<i> per student block.
ExtractStudentsMain ==
    /\ runs < MaxIngestRuns
    /\ \E model \in ModelArgs, reset \in BOOLEAN :
          chroma_store' = [chroma_store EXCEPT
              !["students"] = AddRows(Reset(@, reset),
                                      {Record("student::0", LocalEmbedder(model))})]
    /\ runs' = runs + 1
    /\ UNCHANGED <<chroma_db, query_embeddings>>
    /\ UNCHANGED <<recommendVars, appVars>>

\* build_chroma_db (src/embeddings.py:5-27): create_collection raises when
\* the collection exists; encode is called without normalize_embeddings,
\* so the vectors have unit length only if the model's own pipeline ends
\* with a normalization.
build_chroma_db ==
    /\ runs < MaxIngestRuns
    /\ ~chroma_db.exists
    /\ \E normalized \in BOOLEAN :
          chroma_db' = AddRows(chroma_db, {Record("1", Embedding("all-MiniLM-L6-v2", normalized))})
    /\ runs' = runs + 1
    /\ UNCHANGED <<chroma_store, query_embeddings>>
    /\ UNCHANGED <<recommendVars, appVars>>

\* The vector query of recommend_apartments and recommend_roommates
\* (src/rag_backend1.py:411-414, 569-572) on the collections the module
\* got at import (122-123).
QueryCollection ==
    /\ chroma_store["apartments"].exists /\ chroma_store["students"].exists
    /\ \E c \in {"apartments", "students"} :
          /\ [collection |-> c, emb |-> embed_query] \notin query_embeddings
          /\ query_embeddings' = query_embeddings \cup {[collection |-> c, emb |-> embed_query]}
    /\ UNCHANGED <<chroma_store, chroma_db, runs>>
    /\ UNCHANGED <<recommendVars, appVars>>

NextIngest ==
    \/ EmbedIndexMain
    \/ EmbedIndexV2Main
    \/ ExtractStudentsMain
    \/ build_chroma_db
    \/ QueryCollection

SpecIngest == Init /\ [][NextIngest]_vars

(***************************************************************************)
(* The questionnaire page of src/app.py (lines 230-292).  A form is what   *)
(* the user entered: name, user_id, the ten slider answers and             *)
(* extra_notes.                                                            *)
(***************************************************************************)
TRAIT_ORDER ==
    <<"Openness", "Conscientiousness", "Extraversion", "Agreeableness", "Neuroticism">>

\* QUESTIONS: the trait label of q1..q10.
QUESTIONS ==
    <<"Openness", "Openness", "Conscientiousness", "Conscientiousness",
      "Extraversion", "Extraversion", "Agreeableness", "Agreeableness",
      "Neuroticism", "Neuroticism / Extraversion">>

\* q.trait.split("/")[0].strip()
PrimaryTrait(trait) == Strip(Split(trait, "/", -1)[1])

\* Lines 242-253: scores[primary_trait], the answers of the questions of
\* that trait in the order of the questions.
RECURSIVE ScoresFrom(_, _, _)
ScoresFrom(answers, trait, i) ==
    IF i > Len(QUESTIONS) THEN <<>>
    ELSE (IF PrimaryTrait(QUESTIONS[i]) = trait THEN <<answers[i]>> ELSE <<>>)
             \o ScoresFrom(answers, trait, i + 1)

Scores(answers) ==
    [t \in {TRAIT_ORDER[i] : i \in 1..Len(TRAIT_ORDER)} |-> ScoresFrom(answers, t, 1)]

RECURSIVE SumSeq(_)
SumSeq(vals) == IF vals = <<>> THEN 0 ELSE Head(vals) + SumSeq(Tail(vals))

\* f"{x:.1f}" of the fraction num/den, rounded to tenths.  (The traits
\* have two questions each, so an average is a multiple of 0.5 and is
\* written exactly.)
FormatTenths(num, den) ==
    LET tenths == (20 * num + den) \div (2 * den)
    IN IntStr(tenths \div 10) \o "." \o DigitStr(tenths % 10)

\* trait_buckets(scores): the descriptor string and the averages, each
\* kept as the fraction sum/len; a trait without answers has no average
\* and is written 0.0.
TraitAverage(vals) == [num |-> SumSeq(vals), den |-> Len(vals)]

TraitPart(scores, t) ==
    t \o ":" \o (IF scores[t] = <<>> THEN "0.0"
                 ELSE FormatTenths(SumSeq(scores[t]), Len(scores[t])))

trait_buckets(scores) ==
    [text |-> Join([i \in 1..Len(TRAIT_ORDER) |-> TraitPart(scores, TRAIT_ORDER[i])], "; "),
     avgs |-> [t \in {x \in DOMAIN scores : scores[x] # <<>>} |-> TraitAverage(scores[t])]]

\* A profile text that carries the user's name.
ProfileTextWithName(form) ==
    "name=" \o form.name \o " | traits=[" \o trait_buckets(Scores(form.answers)).text
        \o "] | notes=" \o Strip(form.extra_notes)

\* Lines 268-270: profile_text.
ProfileText(form) ==
    "traits=[" \o trait_buckets(Scores(form.answers)).text
        \o "] | notes=" \o Strip(form.extra_notes)

\* embed_text (lines 122-125): the embedding of a text by the cached
\* all-MiniLM-L6-v2 model, with normalize_embeddings=True.
embed_text(text) == [model |-> "all-MiniLM-L6-v2", normalized |-> TRUE, text |-> text]

\* collection.upsert: a record replaces the record of the same id.
Upsert(collection, rows) == {r \in collection : r.id \notin Ids(rows)} \cup rows

\* seed_demo_if_empty (lines 128-164): the demo records and their texts.
PyBoolStr(b) == IF b THEN "True" ELSE "False"

DemoRoommates ==
    <<[name |-> "Andrea", quiet |-> TRUE, study |-> TRUE, guests |-> "low"],
      [name |-> "Leo", quiet |-> FALSE, study |-> FALSE, guests |-> "high"],
      [name |-> "Sara", quiet |-> TRUE, study |-> TRUE, guests |-> "low"]>>

DemoApartments ==
    <<[neighborhood |-> "Salamanca", rent |-> 900, quiet |-> TRUE],
      [neighborhood |-> "Chamberi", rent |-> 800, quiet |-> TRUE],
      [neighborhood |-> "Malasana", rent |-> 950, quiet |-> FALSE]>>

RoommateText(rm) ==
    "name=" \o rm.name \o " quiet=" \o PyBoolStr(rm.quiet) \o " study=" \o PyBoolStr(rm.study)
        \o " guests=" \o rm.guests

ApartmentText(ap) ==
    "neighborhood=" \o ap.neighborhood \o " rent=" \o IntStr(ap.rent)
        \o " quiet=" \o PyBoolStr(ap.quiet)

ProfileRecord(id, document, metadata) ==
    [id |-> id, document |-> document, embedding |-> embed_text(document), metadata |-> metadata]

SeedRoommates ==
    {ProfileRecord("rm_" \o IntStr(i - 1), RoommateText(DemoRoommates[i]), DemoRoommates[i])
        : i \in 1..Len(DemoRoommates)}

SeedApartments ==
    {ProfileRecord("ap_" \o IntStr(i - 1), ApartmentText(DemoApartments[i]), DemoApartments[i])
        : i \in 1..Len(DemoApartments)}

\* The texts seed_demo_if_empty embeds, in order, for the collections it
\* finds empty.
SeedTexts(roommates, apartments) ==
    (IF roommates = {} THEN [i \in 1..Len(DemoRoommates) |-> RoommateText(DemoRoommates[i])]
     ELSE <<>>)
    \o (IF apartments = {} THEN [i \in 1..Len(DemoApartments) |-> ApartmentText(DemoApartments[i])]
        ELSE <<>>)

Seeded(collection, demo) == IF collection = {} THEN Upsert(collection, demo) ELSE collection

\* query_matches (lines 167-184): None when a collection gives no hit,
\* else the nearest roommate and the nearest apartment.  Which record is
\* nearest is the embedding model's affair: the answers are the pairs of
\* NearestPairs that the collections hold.
NearestPairs == {<<"rm_0", "ap_0">>, <<"rm_2", "ap_1">>}

Matches(roommates, apartments) ==
    IF roommates = {} \/ apartments = {} THEN {PyNone}
    ELSE {[t |-> "match", roommate |-> p[1], apartment |-> p[2]]
             : p \in {q \in NearestPairs : q[1] \in Ids(roommates) /\ q[2] \in Ids(apartments)}}

\* save_user (lines 45-58): a fresh uuid, and the row inserted in users.
\* An id that is the same for every user.
NewUuidFixed == "uuid-1"

NewUuid == "uuid-" \o IntStr(Len(users) + 1)

UserRow(user_uuid, form) == [user_uuid |-> user_uuid, user_id |-> form.user_id, name |-> form.name]

\* The insert raises when the table already holds the user_id (the column
\* is unique) or when the service fails; otherwise it may succeed.
InsertOutcomes(form) ==
    IF \E i \in 1..Len(users) : users[i].user_id = form.user_id THEN {"raise"}
    ELSE {"ok", "raise"}

\* The forms a user submits.
FormIdentities ==
    {[name |-> "", user_id |-> "u1"], [name |-> "Ana", user_id |-> ""],
     [name |-> "Ana", user_id |-> "u1"], [name |-> "Luis", user_id |-> "u2"]}

AnswerSheets ==
    {[i \in 1..10 |-> 3], [i \in 1..10 |-> IF i % 2 = 0 THEN 4 ELSE 1]}

NotesTexts == {"", " I have a cat \n"}

Forms ==
    {[name |-> id.name, user_id |-> id.user_id, answers |-> a, extra_notes |-> n]
        : id \in FormIdentities, a \in AnswerSheets, n \in NotesTexts}

\* What lines 268-270 compute for each form: the profile text and the
\* trait averages.
FormProfile ==
    [form \in Forms |->
        [text |-> ProfileText(form), avgs |-> trait_buckets(Scores(form.answers)).avgs]]

MaxSubmissions == 2

Logged(form, outcome, user_uuid, text, match) ==
    Append(submissions, [form |-> form, outcome |-> outcome, user_uuid |-> user_uuid,
                         profile_text |-> text, match |-> match])

\* Lines 258-261: the button was pressed on a form without a name or
\* without a user ID: st.error and st.stop.
SubmitRejected ==
    /\ Len(submissions) < MaxSubmissions
    /\ \E form \in Forms :
          /\ form.name = "" \/ form.user_id = ""
          /\ submissions' = Logged(form, "rejected", "", "", PyNone)
    /\ UNCHANGED <<users, roommate_profiles, apartment_listings, user_profiles,
                   session_state, embedded, proc>>
    /\ UNCHANGED <<recommendVars, ingestVars>>

\* Lines 263-264: save_user raises and the run of the script ends there.
SubmitSaveFails ==
    /\ Len(submissions) < MaxSubmissions
    /\ \E form \in Forms :
          /\ form.name # "" /\ form.user_id # ""
          /\ "raise" \in InsertOutcomes(form)
          /\ submissions' = Logged(form, "save_failed", "", "", PyNone)
    /\ UNCHANGED <<users, roommate_profiles, apartment_listings, user_profiles,
                   session_state, embedded, proc>>
    /\ UNCHANGED <<recommendVars, ingestVars>>

\* Lines 263-292: the user is saved, the profile text embedded, the demo
\* data seeded, the profile upserted and the match looked up.
Submit ==
    /\ Len(submissions) < MaxSubmissions
    /\ \E form \in Forms :
          /\ form.name # "" /\ form.user_id # ""
          /\ "ok" \in InsertOutcomes(form)
          /\ LET user_uuid == NewUuid
                 avgs == FormProfile[form].avgs
                 profile_text == FormProfile[form].text
                 seeded_roommates == Seeded(roommate_profiles, SeedRoommates)
                 seeded_apartments == Seeded(apartment_listings, SeedApartments)
             IN /\ users' = Append(users, UserRow(user_uuid, form))
                /\ embedded' = embedded \o <<profile_text>>
                                   \o SeedTexts(roommate_profiles, apartment_listings)
                /\ roommate_profiles' = seeded_roommates
                /\ apartment_listings' = seeded_apartments
                /\ user_profiles' =
                       Upsert(user_profiles,
                              {ProfileRecord(user_uuid, profile_text,
                                             [name |-> form.name, user_id |-> form.user_id])})
                /\ \E match \in Matches(seeded_roommates, seeded_apartments) :
                      /\ session_state' =
                             [last_match |-> IF match = PyNone THEN session_state.last_match
                                             ELSE match,
                              user_uuid |-> PyStr(user_uuid),
                              trait_avgs |-> avgs]
                      /\ submissions' =
                             Logged(form, IF match = PyNone THEN "no_candidates" ELSE "matched",
                                    user_uuid, profile_text, match)
    /\ UNCHANGED <<proc, recommendVars, ingestVars>>

\* The calls of the handler after save_user that reach the embedding
\* model or the Chroma store, in order: embed_text (271), the seeding
\* (276), the upsert of the profile (278) and query_matches (286).
SubmitStages == <<"embed", "seed", "upsert", "query">>

StageReached(failed, stage) ==
    \E i, j \in DOMAIN SubmitStages :
        SubmitStages[i] = stage /\ SubmitStages[j] = failed /\ i < j

\* Lines 263-286: the user is saved, and then one of the calls to the
\* embedding model or to the Chroma store raises: the run of the script
\* ends there, with what the calls before it wrote.
SubmitFailsAfterSave ==
    /\ Len(submissions) < MaxSubmissions
    /\ \E form \in Forms, failed \in {SubmitStages[i] : i \in DOMAIN SubmitStages} :
          /\ form.name # "" /\ form.user_id # ""
          /\ "ok" \in InsertOutcomes(form)
          /\ LET user_uuid == NewUuid
                 avgs == FormProfile[form].avgs
                 profile_text == FormProfile[form].text
             IN /\ users' = Append(users, UserRow(user_uuid, form))
                /\ session_state' = [session_state EXCEPT !.user_uuid = PyStr(user_uuid),
                                                          !.trait_avgs = avgs]
                /\ embedded' =
                       embedded
                       \o (IF StageReached(failed, "embed") THEN <<profile_text>> ELSE <<>>)
                       \o (IF StageReached(failed, "seed")
                           THEN SeedTexts(roommate_profiles, apartment_listings) ELSE <<>>)
                /\ roommate_profiles' =
                       (IF StageReached(failed, "seed")
                        THEN Seeded(roommate_profiles, SeedRoommates) ELSE roommate_profiles)
                /\ apartment_listings' =
                       (IF StageReached(failed, "seed")
                        THEN Seeded(apartment_listings, SeedApartments) ELSE apartment_listings)
                /\ user_profiles' =
                       (IF StageReached(failed, "upsert")
                        THEN Upsert(user_profiles,
                                    {ProfileRecord(user_uuid, profile_text,
                                                   [name |-> form.name, user_id |-> form.user_id])})
                        ELSE user_profiles)
                /\ submissions' = Logged(form, "failed_" \o failed, user_uuid, profile_text, PyNone)
    /\ UNCHANGED <<proc, recommendVars, ingestVars>>

NextApp ==
    \/ SubmitRejected
    \/ SubmitSaveFails
    \/ SubmitFailsAfterSave
    \/ Submit

SpecApp == Init /\ [][NextApp]_vars

(***************************************************************************)
(* Two sessions submit the questionnaire at the same time (src/app.py      *)
(* 258-292).  Each call to Supabase or Chroma is one step: the store       *)
(* serializes the calls, and nothing in the handler holds a lock across    *)
(* them, so the steps of the two sessions interleave freely.               *)
(***************************************************************************)
\* The forms of the two sessions: different users, each with a name and a
\* user ID.
ProcForms(p) ==
    {f \in Forms : f.name = (IF p = "A" THEN "Ana" ELSE "Luis")
                   /\ f.user_id = (IF p = "A" THEN "u1" ELSE "u2")}

At(p, label) == proc[p].pc = label

\* Lines 263-271: save_user inserts the row under a fresh uuid.
SaveUser(p) ==
    /\ At(p, "start")
    /\ \E form \in ProcForms(p) :
          /\ users' = Append(users, UserRow(NewUuid, form))
          /\ proc' = [proc EXCEPT ![p] = [@ EXCEPT !.pc = "count_r", !.form = form,
                                                    !.user_uuid = NewUuid]]
    /\ UNCHANGED <<roommate_profiles, apartment_listings, user_profiles,
                   session_state, embedded, submissions>>
    /\ UNCHANGED <<recommendVars, ingestVars>>

\* Line 131: r_count = roommates.count()
CountRoommates(p) ==
    /\ At(p, "count_r")
    /\ proc' = [proc EXCEPT ![p] = [@ EXCEPT !.pc = "count_a",
                                              !.r_count = Cardinality(roommate_profiles)]]
    /\ UNCHANGED <<users, roommate_profiles, apartment_listings, user_profiles,
                   session_state, embedded, submissions>>
    /\ UNCHANGED <<recommendVars, ingestVars>>

\* Line 131: a_count = apartments.count()
CountApartments(p) ==
    /\ At(p, "count_a")
    /\ proc' = [proc EXCEPT ![p] = [@ EXCEPT !.pc = "seed_r",
                                              !.a_count = Cardinality(apartment_listings)]]
    /\ UNCHANGED <<users, roommate_profiles, apartment_listings, user_profiles,
                   session_state, embedded, submissions>>
    /\ UNCHANGED <<recommendVars, ingestVars>>

\* Lines 136-149: if r_count == 0, the demo roommates are upserted.
UpsertDemoRoommates(p) ==
    /\ At(p, "seed_r")
    /\ roommate_profiles' = (IF proc[p].r_count = 0
                             THEN Upsert(roommate_profiles, SeedRoommates)
                             ELSE roommate_profiles)
    /\ proc' = [proc EXCEPT ![p] = [@ EXCEPT !.pc = "seed_a"]]
    /\ UNCHANGED <<users, apartment_listings, user_profiles,
                   session_state, embedded, submissions>>
    /\ UNCHANGED <<recommendVars, ingestVars>>

\* Lines 151-164: if a_count == 0, the demo apartments are upserted.
UpsertDemoApartments(p) ==
    /\ At(p, "seed_a")
    /\ apartment_listings' = (IF proc[p].a_count = 0
                              THEN Upsert(apartment_listings, SeedApartments)
                              ELSE apartment_listings)
    /\ proc' = [proc EXCEPT ![p] = [@ EXCEPT !.pc = "upsert"]]
    /\ UNCHANGED <<users, roommate_profiles, user_profiles,
                   session_state, embedded, submissions>>
    /\ UNCHANGED <<recommendVars, ingestVars>>

\* Lines 278-283: user_profiles.upsert of the session's own profile.
UpsertProfile(p) ==
    /\ At(p, "upsert")
    /\ user_profiles' =
           Upsert(user_profiles,
                  {ProfileRecord(proc[p].user_uuid, FormProfile[proc[p].form].text,
                                 [name |-> proc[p].form.name, user_id |-> proc[p].form.user_id])})
    /\ proc' = [proc EXCEPT ![p] = [@ EXCEPT !.pc = "query"]]
    /\ UNCHANGED <<users, roommate_profiles, apartment_listings,
                   session_state, embedded, submissions>>
    /\ UNCHANGED <<recommendVars, ingestVars>>

\* Lines 286-292: query_matches, and the match kept by the session.
QueryMatches(p) ==
    /\ At(p, "query")
    /\ \E match \in Matches(roommate_profiles, apartment_listings) :
          proc' = [proc EXCEPT ![p] = [@ EXCEPT !.pc = "done", !.match = match]]
    /\ UNCHANGED <<users, roommate_profiles, apartment_listings, user_profiles,
                   session_state, embedded, submissions>>
    /\ UNCHANGED <<recommendVars, ingestVars>>

NextConcurrent ==
    \/ \E p \in Procs : SaveUser(p)
    \/ \E p \in Procs : CountRoommates(p)
    \/ \E p \in Procs : CountApartments(p)
    \/ \E p \in Procs : UpsertDemoRoommates(p)
    \/ \E p \in Procs : UpsertDemoApartments(p)
    \/ \E p \in Procs : UpsertProfile(p)
    \/ \E p \in Procs : QueryMatches(p)

SpecConcurrent == Init /\ [][NextConcurrent]_vars

(***************************************************************************)
(* Properties of the ranking (C1)                                          *)
(***************************************************************************)
\* The score, the identifier and the justification of the i-th candidate of
\* the scored list, as the hosted model returned them.
ScoreAt(i) == IF fn = "apartments" THEN NumberOf(ScoreKey(scored[i])) ELSE scored[i].score
IdAt(i) == IF fn = "apartments" THEN FmtValue(scored[i].d["property_code"]) ELSE scored[i].name
ReasonAt(i) == IF fn = "apartments" THEN FmtValue(scored[i].d["reasoning"]) ELSE scored[i].reasoning

\* How many candidates go before candidate j in the order "higher score
\* first, and among equal scores the one the model returned first".
Rank(j) ==
    Cardinality({k \in 1..Len(scored) :
                    ScoreAt(k) > ScoreAt(j) \/ (ScoreAt(k) = ScoreAt(j) /\ k < j)})

\* C1: when a call returns a ranking, the ranking is exactly the first
\* min(top_k, n) of the n scored candidates in descending order of score,
\* candidates of equal score in the order the model returned them.
C1_TopKStableDescending ==
    (pc = "done" /\ scored # <<>>) =>
        /\ Len(ret.items) = MinOf(top_k, Len(scored))
        /\ \A j \in 1..Len(scored) :
              Rank(j) < top_k =>
                  /\ ret.items[Rank(j) + 1].id = IdAt(j)
                  /\ ret.items[Rank(j) + 1].score = ScoreAt(j)
                  /\ ret.items[Rank(j) + 1].reason = ReasonAt(j)

\* A ranking cut by top_k whose first candidate is not the one the model
\* returned first and which holds two candidates of equal score.
C1_Witness ==
    /\ pc = "done"
    /\ Len(scored) > top_k
    /\ Len(ret.items) = top_k
    /\ ret.items[1].id # IdAt(1)
    /\ \E a, b \in 1..Len(scored) : a < b /\ ScoreAt(a) = ScoreAt(b) /\ Rank(b) < top_k

(***************************************************************************)
(* Properties of the parsed query (C2, C6)                                 *)
(***************************************************************************)
\* C2: after the query is parsed, the effective budget is
\* budget_per_person * (roommates + 1) when the parsed answer holds both
\* numbers, and None when it lacks either.
C2_EffectiveBudget ==
    (fn = "apartments" /\ pc = "apt_retrieve") =>
        IF IsNumber(loc.roommates) /\ IsNumber(loc.budget_per_person)
        THEN loc.effective_budget
                 = PyInt(NumberOf(loc.budget_per_person) * (NumberOf(loc.roommates) + 1))
        ELSE loc.effective_budget = PyNone

\* The disambiguation call was answered with text json.loads rejects.
ParseMiss ==
    /\ fn = "apartments"
    /\ calls = <<[stage |-> "parse", ok |-> TRUE]>>
    /\ ~StartsWith(llm_raw, "ERROR")
    /\ ~json_loads(clean_json(llm_raw)).ok

\* C6: when the answer of the disambiguation call cannot be parsed, the
\* request goes on to retrieval with the raw user text as the query.
C6_ParseMissFallsBack ==
    ParseMiss => (pc = "apt_retrieve" /\ loc.apt_query = PyStr(user_query))

(***************************************************************************)
(* Properties of the scoring answer (C4, C5)                               *)
(***************************************************************************)
LastCall == calls[Len(calls)]

\* The scoring call of recommend_apartments was answered with text
\* json.loads rejects.
ScoreParseFails ==
    /\ fn = "apartments"
    /\ pc = "done"
    /\ calls # <<>>
    /\ LastCall = [stage |-> "score", ok |-> TRUE]
    /\ ~StartsWith(llm_raw, "ERROR")
    /\ ~json_loads(clean_json(llm_raw)).ok

\* C4: when the scoring answer is not parseable, recommend_apartments
\* returns a labelled parse error that holds the answer exactly as the
\* model returned it, and raises nothing.
C4_ParseErrorHoldsRawText ==
    ScoreParseFails =>
        /\ exc = "none"
        /\ StartsWith(ret.text, "ERROR: Failed to parse apartment scores JSON")
        /\ Contains(ret.text, llm_raw)

\* A scored item of the wrong shape: not an object, a required key
\* missing, or a total_score that is no number.
WrongShapeItem(x) ==
    \/ x.t # "dict"
    \/ "property_code" \notin DOMAIN x.d
    \/ "total_score" \notin DOMAIN x.d
    \/ "reasoning" \notin DOMAIN x.d
    \/ ~IsNumber(x.d["total_score"])

WrongShapeScores(v) ==
    \/ v.t # "dict"
    \/ /\ DictGet(v, "apartments").t = "list"
       /\ \E i \in 1..Len(DictGet(v, "apartments").xs) : WrongShapeItem(DictGet(v, "apartments").xs[i])

\* The call that ended the request was answered with valid JSON of the
\* wrong shape.
WrongShapeAnswer ==
    /\ fn = "apartments"
    /\ pc = "done"
    /\ calls # <<>>
    /\ LastCall.stage \in {"parse", "score"}
    /\ LastCall.ok
    /\ ~StartsWith(llm_raw, "ERROR")
    /\ LET answer == json_loads(clean_json(llm_raw))
       IN /\ answer.ok
          /\ IF LastCall.stage = "parse" THEN answer.val.t # "dict" ELSE WrongShapeScores(answer.val)

\* C5: for an answer that is valid JSON of the wrong shape, on the parsing
\* call or the scoring call, recommend_apartments returns an error string
\* and raises nothing.
C5_WrongShapeGivesErrorString ==
    WrongShapeAnswer => (exc = "none" /\ StartsWith(ret.text, "ERROR"))

(***************************************************************************)
(* Properties of failures (C7)                                             *)
(***************************************************************************)
\* A call to the hosted model or to the vector store that failed.
ExternalFailure(c) == c.stage \in {"parse", "query", "score"} /\ ~c.ok

\* C7 as stated, for every external call, the summarization model's
\* included: a failed call is the last external call of its request and the
\* request ends with an error-labelled string.
C7_AnyFailureEndsRequest ==
    \A i \in 1..Len(calls) :
        ~calls[i].ok => (i = Len(calls) /\ pc = "done" /\ StartsWith(ret.text, "ERROR"))

\* C7: a failed call to the hosted model (disambiguation, scoring) or to
\* the vector store is the last external call of its request (no retry, no
\* call of a later stage), and the request ends with an error-labelled
\* string and raises nothing.
C7_FailureEndsRequest ==
    \A i \in 1..Len(calls) :
        ExternalFailure(calls[i]) =>
            /\ i = Len(calls)
            /\ pc = "done"
            /\ exc = "none"
            /\ StartsWith(ret.text, "ERROR")
            /\ ret.items = <<>>

\* A request whose scoring call failed after the earlier stages succeeded.
C7_Witness ==
    /\ pc = "done"
    /\ Len(calls) >= 3
    /\ LastCall.stage = "score"
    /\ ExternalFailure(LastCall)
    /\ StartsWith(ret.text, "ERROR")

(***************************************************************************)
(* Properties of the deterministic filter (C3, C8, C9, C10)                *)
(***************************************************************************)
\* recommend_roommates has run filter_students on the retrieved records.
Filtered == fn = "roommates" /\ pc \in {"rm_score", "done"} /\ calls[1].ok

\* The i-th retrieved candidate is in the output of filter_students.
InOutput(i) == \E j \in 1..Len(students) : students[j].raw = hits[i].doc

NoCompatibleText == "No compatible roommate candidates after basic filtering."

\* Candidates were retrieved and the filter removes each of them.
AllFilteredOut ==
    Filtered /\ hits # <<>> /\ \A i \in 1..Len(hits) : Excluded(hits[i].meta)

\* C3: when the filter removes every retrieved candidate the request ends
\* with the "no compatible candidates" text, which is no error and no
\* ranking, without a scoring call; and that text is returned only when
\* the filter kept no candidate.
C3_NoCompatibleOutcome ==
    /\ AllFilteredOut =>
          /\ pc = "done"
          /\ exc = "none"
          /\ ret = [text |-> NoCompatibleText, items |-> <<>>]
          /\ ~StartsWith(ret.text, "ERROR")
          /\ ~StartsWith(ret.text, "Top roommate matches")
          /\ \A c \in 1..Len(calls) : calls[c].stage # "score"
    /\ ret.text = NoCompatibleText =>
          (Filtered /\ \A i \in 1..Len(hits) : Excluded(hits[i].meta))

\* Two candidates were retrieved and the filter removed both.
C3_Witness == AllFilteredOut /\ Len(hits) = 2 /\ ret.text = NoCompatibleText

\* The profile asks for roommates who tolerate a pet.
RequestsPetTolerance(profile) == Contains(Lower(profile), "dog")

\* The candidate's pet field holds "allergic".
PetAllergic(meta) == Contains(MetaLower(meta, "dog_friendliness"), "allergic")

\* The candidate matches the lifestyle rule, the noise rule.
RigidRoutine(meta) == StructureFilter(MetaLower(meta, "lifestyle_summary"))
NoiseAndEarly(meta) ==
    NoiseFilter(MetaLower(meta, "lifestyle_summary"), MetaLower(meta, "noise_tolerance"),
                MetaLower(meta, "sleep_schedule"))

\* C8: when the profile requests pet tolerance, no candidate whose pet
\* field holds "allergic" is in the output of filter_students.
C8_AllergicExcluded ==
    (Filtered /\ RequestsPetTolerance(user_query)) =>
        \A i \in 1..Len(hits) : PetAllergic(hits[i].meta) => ~InOutput(i)

\* A profile that requests pet tolerance, an allergic candidate that
\* matches no other rule, and another candidate that is kept.
C8_Witness ==
    /\ Filtered
    /\ RequestsPetTolerance(user_query)
    /\ students # <<>>
    /\ \E i \in 1..Len(hits) :
          PetAllergic(hits[i].meta) /\ ~RigidRoutine(hits[i].meta) /\ ~NoiseAndEarly(hits[i].meta)

\* C9: when the profile does not demand pet tolerance, a candidate whose
\* pet field indicates allergy or incompatibility and who matches no other
\* rule is in the output of filter_students.
C9_PetRuleOnlyOnDemand ==
    (Filtered /\ ~RequestsPetTolerance(user_query)) =>
        \A i \in 1..Len(hits) :
            (/\ DogFilter(MetaLower(hits[i].meta, "dog_friendliness"))
             /\ ~RigidRoutine(hits[i].meta)
             /\ ~NoiseAndEarly(hits[i].meta)) => InOutput(i)

\* C10: no candidate whose lifestyle text matches a rigid-routine pattern
\* is in the output of filter_students.
C10_RigidRoutineExcluded ==
    Filtered => \A i \in 1..Len(hits) : RigidRoutine(hits[i].meta) => ~InOutput(i)

\* A candidate that matches the lifestyle rule alone, retrieved with a
\* candidate that is kept.
C10_Witness ==
    /\ Filtered
    /\ students # <<>>
    /\ \E i \in 1..Len(hits) :
          /\ RigidRoutine(hits[i].meta)
          /\ ~DogFilter(MetaLower(hits[i].meta, "dog_friendliness"))
          /\ ~NoiseAndEarly(hits[i].meta)

(***************************************************************************)
(* Properties of the noise rule (C11)                                      *)
(***************************************************************************)
\* The candidate is noise-sensitive: its lifestyle or its noise tolerance
\* says so.  Its sleep field holds the early-hour token "10" (which "10:"
\* holds too).
NoiseSensitive(meta) ==
    \/ Contains(MetaLower(meta, "lifestyle_summary"), "noise sensitive")
    \/ Contains(MetaLower(meta, "noise_tolerance"), "noise sensitive")

EarlySleep(meta) == Contains(MetaLower(meta, "sleep_schedule"), "10")

\* The candidate matches neither the pet rule nor the lifestyle rule.
NoOtherRule(meta) ==
    ~DogFilter(MetaLower(meta, "dog_friendliness")) /\ ~RigidRoutine(meta)

OutputDocs == [i \in 1..Len(students) |-> students[i].raw]

OutputMetas == [i \in 1..Len(students) |-> students[i].meta]

\* C12: filter_students applied to the documents and metadata of its own
\* output returns that output: the same candidates, in the same order, with
\* the same display names.
C12_FilterIdempotent ==
    Filtered => filter_students(OutputDocs, OutputMetas) = students

\* A retrieved list from which the filter removed a candidate and kept one
\* under a generated display name.
C12_Witness ==
    /\ Filtered
    /\ Len(students) < Len(hits)
    /\ \E i \in 1..Len(students) : StartsWith(students[i].name, "Candidate_")

(***************************************************************************)
(* Display names (C13)                                                     *)
(***************************************************************************)
\* The record has name metadata: a name that is neither missing, nor empty,
\* nor the "not specified" the ingestion writes for a missing value.
HasName(meta) ==
    /\ "name" \in DOMAIN meta.d
    /\ meta.d["name"].t = "str"
    /\ meta.d["name"].s \notin {"", "not specified"}

\* The placeholder Candidate_<n> for the record's own chunk index n.
IsPlaceholderOf(name, meta) ==
    \E n \in 0..Len(STUDENTS) :
        /\ DictGet(meta, "chunk_index") \in {PyInt(n), PyStr(IntStr(n))}
        /\ name = "Candidate_" \o IntStr(n)

\* C13: every candidate in the output of filter_students carries its name
\* metadata as display name when it has one, and otherwise the placeholder
\* Candidate_<index> of its own index; the display name is never empty,
\* never "not specified" and never a placeholder without an index.
C13_DisplayName ==
    Filtered =>
        \A j \in 1..Len(students) :
            /\ IF HasName(students[j].meta)
               THEN students[j].name = students[j].meta.d["name"].s
               ELSE IsPlaceholderOf(students[j].name, students[j].meta)
            /\ students[j].name \notin {"", "not specified", "Candidate_", "Candidate_None"}

\* An output with a named candidate and a candidate under a placeholder.
C13_Witness ==
    /\ Filtered
    /\ \E i, j \in 1..Len(students) :
          /\ HasName(students[i].meta)
          /\ ~HasName(students[j].meta)
          /\ IsPlaceholderOf(students[j].name, students[j].meta)

(***************************************************************************)
(* Summarization failures (C14)                                            *)
(***************************************************************************)
\* The summarization calls made so far, in the order of the retrieved
\* apartments.
IsSummarizeCall(c) == c.stage = "summarize"

SummarizeCalls == SelectSeq(calls, IsSummarizeCall)

\* s is the first 200 characters of d.
IsTruncationOf(s, d) ==
    IF Len(d) <= 200 THEN s = d ELSE Len(s) = 200 /\ s = SubSeq(d, 1, 200)

\* C14: in recommend_apartments a failed summarization leaves, in the place
\* of that apartment, the first 200 characters of its description; the
\* failure neither ends the request nor drops the apartment, and the
\* request goes on to scoring with one text per retrieved apartment (a
\* request that ends between the loop and the scoring call ends on the
\* parsed filters, after every apartment has its text).
C14_SummarizeFailureFallsBack ==
    fn = "apartments" =>
        /\ Len(summarized_docs) = Len(SummarizeCalls)
        /\ \A i \in 1..Len(SummarizeCalls) :
              ~SummarizeCalls[i].ok => IsTruncationOf(summarized_docs[i], hits[i].doc)
        /\ (calls # <<>> /\ LastCall.stage = "summarize" /\ pc # "done") =>
              /\ exc = "none" /\ ret = NoRet
              /\ pc = (IF Len(summarized_docs) = Len(hits) THEN "apt_score" ELSE "apt_summarize")
        /\ (calls # <<>> /\ LastCall.stage = "summarize" /\ pc = "done") =>
              /\ Len(summarized_docs) = Len(hits)
              /\ ret = NoRet /\ exc # "none" /\ exc = PromptError(loc)
        /\ (calls # <<>> /\ LastCall.stage = "score") => Len(summarized_docs) = Len(hits)

\* A request that returned a ranking after the summarization of a
\* description of more than 200 characters failed.
C14_Witness ==
    /\ fn = "apartments" /\ pc = "done" /\ ret.items # <<>>
    /\ LastCall.stage = "score"
    /\ \E i \in 1..Len(SummarizeCalls) :
          /\ ~SummarizeCalls[i].ok
          /\ Len(hits[i].doc) > 200
          /\ Len(summarized_docs[i]) = 200

(***************************************************************************)
(* Empty query text (C15)                                                  *)
(***************************************************************************)
\* The request in progress was made with an empty query text.  (The
\* apartment path keeps the query text until its vector query, its second
\* call.)
EmptyQueryRequest ==
    /\ fn # "none"
    /\ user_query = ""
    /\ fn = "apartments" => Len(calls) <= 1

\* C15: a request with an empty query text is rejected before any network
\* call: recommend_apartments and recommend_roommates make no LLM,
\* embedding or vector-store call for it.
C15_EmptyQueryRejected == EmptyQueryRequest => calls = <<>>

(***************************************************************************)
(* Empty retrieval (C16)                                                   *)
(***************************************************************************)
\* The request is over, its vector query was answered with an empty hit
\* list, and no external call of the request failed.
IsAnsweredQuery(c) == c.stage = "query" /\ c.ok

NoCandidatesRetrieved ==
    /\ pc = "done"
    /\ SelectSeq(calls, IsAnsweredQuery) # <<>>
    /\ hits = <<>>
    /\ \A i \in 1..Len(calls) : calls[i].ok

\* The texts with which the two functions report that there is nothing to
\* rank.
NoMatchesTexts ==
    {"No apartments found in database.", "No roommate candidates found in database.",
     "No apartment scores returned by LLM.", NoCompatibleText}

\* C16: when the vector query retrieves no candidates the request returns
\* a "no matches" outcome: no error, no exception and no ranking.
C16_NoHitsGiveNoMatches ==
    NoCandidatesRetrieved =>
        /\ exc = "none"
        /\ ret.items = <<>>
        /\ ret.text \in NoMatchesTexts

(***************************************************************************)
(* Order and number of the external calls of a request (C17)               *)
(***************************************************************************)
\* The place of a stage in the order disambiguation, vector query,
\* summarization, scoring.
StageOrder(stage) ==
    CASE stage = "parse" -> 1
      [] stage = "query" -> 2
      [] stage = "summarize" -> 3
      [] stage = "score" -> 4

\* The number of calls of a stage the request has made.
CallCount(stage) == Cardinality({i \in 1..Len(calls) : calls[i].stage = stage})

\* C17: the external calls of a request come in the order disambiguation,
\* vector query, summarization, scoring; there is at most one
\* disambiguation call, there are at most two vector queries and at least
\* one before any summarization or scoring call, at most one summarization
\* call per retrieved apartment and at most one scoring call; the roommate
\* path makes no disambiguation and no summarization call.
C17_CallOrderAndCounts ==
    /\ \A i, j \in 1..Len(calls) : i < j => StageOrder(calls[i].stage) <= StageOrder(calls[j].stage)
    /\ CallCount("parse") <= 1
    /\ CallCount("query") <= 2
    /\ (CallCount("summarize") + CallCount("score") > 0) => CallCount("query") >= 1
    /\ CallCount("summarize") <= Len(hits)
    /\ CallCount("score") <= 1
    /\ fn = "roommates" => CallCount("parse") = 0 /\ CallCount("summarize") = 0

\* An apartment request that made every kind of call: the disambiguation
\* call, the vector query, one summarization for each of two retrieved
\* apartments and the scoring call.
C17_Witness ==
    /\ fn = "apartments" /\ pc = "done"
    /\ Len(hits) = 2
    /\ [i \in 1..Len(calls) |-> calls[i].stage]
         = <<"parse", "query", "summarize", "summarize", "score">>

(***************************************************************************)
(* run_gemini returns, whatever the hosted model does (C20)                *)
(***************************************************************************)
\* The last external call of the request is a run_gemini call, whose
\* return value the request holds.
LastCallIsGemini == calls # <<>> /\ LastCall.stage \in {"parse", "score"}

\* C20: run_gemini raises nothing to its caller: for every outcome of the
\* hosted model call it returns a non-empty string, and when the call
\* raised or gave a response without candidates the string is an
\* ERROR-labelled value, which the request returns as it is.
C20_RunGeminiReturnsString ==
    LastCallIsGemini =>
        /\ llm_raw \in STRING
        /\ llm_raw # ""
        /\ ~LastCall.ok =>
              /\ StartsWith(llm_raw, "ERROR: Gemini ")
              /\ pc = "done" /\ exc = "none"
              /\ ret = [text |-> llm_raw, items |-> <<>>]

\* A roommate request whose scoring call got a response without
\* candidates.
C20_Witness ==
    /\ fn = "roommates" /\ LastCallIsGemini /\ ~LastCall.ok
    /\ llm_raw = "ERROR: Gemini returned no candidates."

(***************************************************************************)
(* One embedding model per collection (C18)                                *)
(***************************************************************************)
\* The embeddings stored in a collection of ./chroma_store or queried
\* against it.
EmbeddingsOf(c) ==
    {r.emb : r \in chroma_store[c].records}
        \cup {q.emb : q \in {x \in query_embeddings : x.collection = c}}

OneModelNormalized(embeddings) ==
    \A e1, e2 \in embeddings : e1.model = e2.model /\ e1.normalized

\* C18: after any sequence of ingestion runs and queries, the embeddings
\* stored in or queried against a collection all come from one embedding
\* model and are L2-normalized.
C18_OneModelNormalized ==
    /\ \A c \in {"apartments", "students"} : OneModelNormalized(EmbeddingsOf(c))
    /\ OneModelNormalized({r.emb : r \in chroma_db.records})

(***************************************************************************)
(* The embedded profile text holds no PII (C19)                            *)
(***************************************************************************)
\* The handler embedded a profile text for the i-th submission.
ProfileEmbedded(i) == submissions[i].outcome \in {"matched", "no_candidates"}

EmbeddedTexts == {embedded[k] : k \in 1..Len(embedded)}

\* C19: the profile text a questionnaire submission passes to the
\* embedding model excludes the PII fields: two submissions with the same
\* answers and the same notes embed the same text whatever their names and
\* user IDs, and the text holds neither the name nor the user ID.
C19_ProfileTextExcludesPII ==
    \A i, j \in 1..Len(submissions) :
        (ProfileEmbedded(i) /\ ProfileEmbedded(j)) =>
            /\ submissions[i].profile_text \in EmbeddedTexts
            /\ ~Contains(submissions[i].profile_text, submissions[i].form.name)
            /\ ~Contains(submissions[i].profile_text, submissions[i].form.user_id)
            /\ (/\ submissions[i].form.answers = submissions[j].form.answers
                /\ submissions[i].form.extra_notes = submissions[j].form.extra_notes)
                  => submissions[i].profile_text = submissions[j].profile_text

\* Two submissions that differ in name and user ID only, both embedded.
C19_Witness ==
    \E i, j \in 1..Len(submissions) :
        /\ ProfileEmbedded(i) /\ ProfileEmbedded(j)
        /\ submissions[i].form.name # submissions[j].form.name
        /\ submissions[i].form.user_id # submissions[j].form.user_id
        /\ submissions[i].form.answers = submissions[j].form.answers
        /\ submissions[i].form.extra_notes = submissions[j].form.extra_notes
        /\ submissions[i].form.extra_notes # ""

(***************************************************************************)
(* No state between calls, collections untouched (C21)                     *)
(***************************************************************************)
\* Between two calls the module holds nothing of an earlier call.
NoCallState ==
    /\ prompt = <<>>
    /\ fn = "none" /\ user_query = "" /\ top_k = 0 /\ loc = NoLocals
    /\ hits = <<>> /\ summarized_docs = <<>> /\ students = <<>>
    /\ llm_raw = "" /\ scored = <<>> /\ ret = NoRet /\ exc = "none" /\ calls = <<>>

\* C21: a call of recommend_apartments or recommend_roommates keeps no
\* state between calls and leaves both collections as they were: at every
\* point of every sequence of calls the apartments and the students
\* collection hold the records they held at the start, and between two
\* calls nothing of an earlier call is left.
C21_NoStateCollectionsUnchanged ==
    /\ apts_collection = APARTMENTS
    /\ students_collection = STUDENTS
    /\ pc = "idle" => NoCallState

\* A call that read records of a collection and is about to return a
\* ranking.
C21_Witness ==
    /\ pc = "done" /\ hits # <<>> /\ ret.items # <<>>
    /\ apts_collection = APARTMENTS /\ students_collection = STUDENTS

(***************************************************************************)
(* Concurrent submissions need no lock (C22)                               *)
(***************************************************************************)
AllDone == \A p \in Procs : proc[p].pc = "done"

\* C22: under every interleaving of the two submissions the roommate and
\* the apartment collection hold nothing but the three demo records each,
\* and once both submissions are through they hold exactly those, and
\* user_profiles holds exactly one record per submitted user uuid.
C22_ConcurrentSubmissionsAgree ==
    /\ roommate_profiles \in {{}, SeedRoommates}
    /\ apartment_listings \in {{}, SeedApartments}
    /\ AllDone =>
          /\ roommate_profiles = SeedRoommates /\ Cardinality(roommate_profiles) = 3
          /\ apartment_listings = SeedApartments /\ Cardinality(apartment_listings) = 3
          /\ Ids(user_profiles) = {proc[p].user_uuid : p \in Procs}
          /\ Cardinality(user_profiles) = Cardinality(Procs)

\* Both sessions found the roommate collection empty, both upserted the
\* demo roommates, and both submissions are through.
C22_Witness ==
    /\ AllDone
    /\ \A p \in Procs : proc[p].r_count = 0 /\ proc[p].a_count = 0

(***************************************************************************)
(* The filter runs on the roommate path only, before scoring (C23)         *)
(***************************************************************************)
\* The retrieved candidate at position j passed the deterministic filter
\* and is shown under this name.
PassedAs(j, name) == ~Excluded(hits[j].meta) /\ DisplayName(hits[j].meta) = name

\* C23: every candidate in the roommate scoring prompt is a retrieved
\* candidate that passed filter_students, and the apartment scoring prompt
\* lists every retrieved apartment, once and in retrieval order, with its
\* summarized description.
C23_FilterOnRoommatePathOnly ==
    /\ (fn = "roommates" /\ calls # <<>> /\ LastCall.stage = "score") =>
          /\ prompt # <<>>
          /\ \A i \in DOMAIN prompt : \E j \in DOMAIN hits : PassedAs(j, prompt[i].name)
    /\ (fn = "apartments" /\ calls # <<>> /\ LastCall.stage = "score") =>
          /\ Len(prompt) = Len(hits)
          /\ \A i \in DOMAIN prompt :
                /\ prompt[i].prop_id = FmtValue(DictGet(hits[i].meta, "propertyCode"))
                /\ prompt[i].doc = summarized_docs[i]

\* A roommate scoring call whose prompt lists fewer candidates than were
\* retrieved: the filter excluded one.
C23_Witness ==
    /\ fn = "roommates" /\ calls # <<>> /\ LastCall.stage = "score"
    /\ prompt # <<>>
    /\ Len(prompt) < Len(hits)

(***************************************************************************)
(* Every suggestedTexts value gives a title (C24)                          *)
(***************************************************************************)
\* C24: for every value of suggestedTexts, build_apartment_context
\* completes and gives each apartment a title: the title found in the
\* value, or else "Property <propertyCode>".
C24_EverySuggestedTextsGivesTitle ==
    built # NotBuilt =>
        /\ built.context.exc = "none"
        /\ Len(built.context.entries) = Len(built.metas)
        /\ \A i \in DOMAIN built.context.entries :
              built.context.entries[i].title
                  \in {"Piso en Goya", "Loft en Sol",
                       "Property " \o FmtValue(DictGet(built.metas[i], "propertyCode"))}

(***************************************************************************)
(* PII goes to the Supabase store only (C25)                               *)
(***************************************************************************)
ChromaRecords == roommate_profiles \cup apartment_listings \cup user_profiles

\* The texts a record holds in its metadata (the other fields hold
\* booleans and numbers).
MetadataTexts(rec) ==
    {rec.metadata[k] : k \in DOMAIN rec.metadata \cap {"name", "user_id", "guests", "neighborhood"}}

\* C25: no record written to a Chroma collection holds the name or the
\* user ID of a user who submitted the questionnaire, in its document or
\* in its metadata.
C25_NoPIIInChroma ==
    \A i \in 1..Len(users) : \A rec \in ChromaRecords :
        /\ ~Contains(rec.document, users[i].name)
        /\ ~Contains(rec.document, users[i].user_id)
        /\ users[i].name \notin MetadataTexts(rec)
        /\ users[i].user_id \notin MetadataTexts(rec)

(***************************************************************************)
(* Every listed apartment was retrieved (C26)                              *)
(***************************************************************************)
\* The rendered item shows the retrieved apartment at position j.
ShowsHit(item, j) ==
    /\ item.id = FmtValue(DictGet(hits[j].meta, "propertyCode"))
    /\ item.price = FmtValue(DictGet(hits[j].meta, "price"))
    /\ item.district = FmtValue(DictGet(hits[j].meta, "district"))
    /\ item.url = FmtValue(DictGet(hits[j].meta, "url"))

\* C26: every apartment listed in the result of recommend_apartments is
\* one of the apartments retrieved in that call: its PROPERTY_CODE is the
\* propertyCode of a retrieved candidate, and its price, district and URL
\* are that candidate's metadata.
C26_ListedApartmentsWereRetrieved ==
    (pc = "done" /\ fn = "apartments") =>
        \A i \in DOMAIN ret.items : \E j \in DOMAIN hits : ShowsHit(ret.items[i], j)

(***************************************************************************)
(* No excluded candidate is ranked (C27)                                   *)
(***************************************************************************)
\* C27: each name in the ranking recommend_roommates returns is the
\* display name of a candidate that passed filter_students in that call.
C27_RankedNamesPassedFilter ==
    (pc = "done" /\ fn = "roommates") =>
        \A i \in DOMAIN ret.items : \E j \in DOMAIN students : students[j].name = ret.items[i].id

(***************************************************************************)
(* summarize_description returns the summary in full (C30)                 *)
(***************************************************************************)
\* The summary the local model returned, without fences, "json" markers
\* and surrounding whitespace.
SummaryText(outcome) == Strip(Replace(Replace(Strip(outcome.text), FENCE, ""), "json", ""))

ReturnedSummaries == {SummaryText(o) : o \in {x \in SummarizeOutcomes : x.kind = "response"}}

\* C30: for every non-empty summary the local model returns, the
\* description placed in the apartment scoring context is that summary,
\* with only fences, "json" markers and surrounding whitespace removed,
\* and is non-empty.
C30_SummaryReturnedInFull ==
    (fn = "apartments" /\ calls # <<>> /\ LastCall.stage = "score") =>
        \A i \in DOMAIN prompt :
            SummarizeCalls[i].ok =>
                /\ prompt[i].doc \in ReturnedSummaries
                /\ prompt[i].doc # ""

(***************************************************************************)
(* recommend stops after disambiguation only on a failed call (C28)        *)
(***************************************************************************)
\* What the disambiguation answer gives for a key: the parsed value, or
\* the raw query when the key could not be parsed out of it.
ParsedOrRaw(key) ==
    DictGetDefault(safe_json_parse(request.llm_response), key, PyStr(request.query))

\* C28: every answer the model returned to the disambiguation call,
\* whatever its text, takes rag_backend.recommend on to retrieval, with
\* the raw query in the place of apartment_query or user_profile where the
\* answer does not hold it; the call stops there only when the model call
\* failed.
C28_StopsOnlyOnFailedCall ==
    (request.calls # <<>> /\ request.calls[1].ok) =>
        /\ request.apartment_query = ParsedOrRaw("apartment_query")
        /\ request.user_profile = ParsedOrRaw("user_profile")
        /\ (Len(request.calls) = 1 /\ request.pc = "done")
              => request.ret = "ERROR: ChromaDB query failed: unavailable"

(***************************************************************************)
(* The match kept by the session belongs to its user (C29)                 *)
(***************************************************************************)
\* The submissions that got the uuid the session holds.
SessionSubmissions ==
    {i \in 1..Len(submissions) : PyStr(submissions[i].user_uuid) = session_state.user_uuid}

\* C29: whenever session_state.last_match is set, it is the match computed
\* for the submission identified by session_state.user_uuid.
C29_LastMatchBelongsToSessionUser ==
    session_state.last_match # PyNone =>
        \E i \in SessionSubmissions :
            /\ submissions[i].outcome = "matched"
            /\ submissions[i].match = session_state.last_match
====
